---- MODULE Spec2Model ----
(***************************************************************************)
(* A model of the menu application: quantity arithmetic and the shopping   *)
(* list (src/app.py), the ingredient classifier                            *)
(* (src/classificatore_ingredienti.py), the weekly frequency rules         *)
(* (src/ZZ_BCKUP2/schema_alimentare.py) and the weekly menu generator      *)
(* (src/ZZ_ BCKUP/menu_generator.py).                                      *)
(*                                                                         *)
(* Texts are sequences of one-character strings, so that parsing,          *)
(* formatting, substring search and pattern matching are computed on the   *)
(* characters as the code computes them.  An accented letter is one        *)
(* character, written with its name ("agrave" is a-grave).                 *)
(***************************************************************************)
EXTENDS Integers, Sequences, FiniteSets, TLC

VARIABLES
  testo,      \* SpecQty: the quantity text under test
  storia,     \* SpecQty: the texts produced by successive format(parse(.))
  classificatore, \* the ClassificatoreIngredienti instance (<<>> before it is built)
  cache_file, \* the content of CACHE_FILE (<<>> when it does not exist)
  esito,      \* what the last call of classifica was given and returned
  lista_pasti, \* SpecFreq: the list of meals under test
  verifica,   \* SpecFreq: what verifica_frequenze_settimanali returned (<<>> before)
  csv,        \* the content of CSV_FILE (<<>> when it does not exist)
  generator,  \* the MenuGenerator instance (<<>> before it is built)
  corsa,      \* the call of genera_settimana_bilanciata under way or ended (<<>>: none)
  ritorno,    \* what the last generation call returned or raised (<<>> before)
  spesa,      \* the last call of calcola_lista_spesa and its result (<<>> before)
  spesa_prima, \* the call of calcola_lista_spesa before that one (<<>>: none)
  risposta_http, \* the last response of a route of the application (<<>> before)
  argomenti,  \* the arguments of the call of a function under test
  reso,       \* what that call returned, as <<value>> (<<>> before the call)
  cartella,   \* the snapshots beside CSV_FILE: backups, pre-restore copies, .corretto
  orologio,   \* the second of the clock and the number of writes of CSV_FILE so far
  csv_mtime,  \* the modification time of CSV_FILE
  voti_file,  \* the content of VOTES_FILE (<<>> when it does not exist)
  richieste,  \* the requests /api/vota has answered, oldest first
  commit      \* the requests of salva_menu_settimanale under way: what each read

varsQty == <<testo, storia>>
varsClass == <<classificatore, cache_file, esito>>
varsFreq == <<lista_pasti, verifica>>
varsGen == <<generator, corsa, ritorno>>
varsSpesa == <<spesa, spesa_prima>>
varsFun == <<argomenti, reso>>
varsDisco == <<cartella, orologio, csv_mtime>>
varsVoti == <<voti_file, richieste>>
vars == <<varsQty, varsClass, varsFreq, csv, varsGen, varsSpesa, risposta_http, varsFun, varsDisco,
          varsVoti, commit>>

(***************************************************************************)
(* Characters and strings                                                  *)
(***************************************************************************)
Maiuscole == <<"A","B","C","D","E","F","G","H","I","J","K","L","M","N","O","P","Q","R","S","T","U","V","W","X","Y","Z","Agrave","Egrave">>
Minuscole == <<"a","b","c","d","e","f","g","h","i","j","k","l","m","n","o","p","q","r","s","t","u","v","w","x","y","z","agrave","egrave">>
Cifre == <<"0","1","2","3","4","5","6","7","8","9">>

IsDigit(c) == \E i \in 1..Len(Cifre) : Cifre[i] = c
DigitVal(c) == (CHOOSE i \in 1..Len(Cifre) : Cifre[i] = c) - 1
IsSpace(c) == c = " "

\* str.lower() on one character
LowerChar(c) ==
  IF \E i \in 1..Len(Maiuscole) : Maiuscole[i] = c
  THEN Minuscole[CHOOSE i \in 1..Len(Maiuscole) : Maiuscole[i] = c]
  ELSE c
lower(s) == [i \in 1..Len(s) |-> LowerChar(s[i])]

\* str.strip(): leading and trailing white space removed
strip(s) ==
  LET idx == {i \in 1..Len(s) : ~IsSpace(s[i])}
  IN IF idx = {} THEN <<>>
     ELSE SubSeq(s, CHOOSE i \in idx : \A j \in idx : i <= j,
                    CHOOSE i \in idx : \A j \in idx : j <= i)

\* e(x) for x the value of v: a LET whose definition is evaluated once,
\* however often its body reads it
Con(v, e(_)) == CHOOSE r \in {e(x) : x \in {v}} : TRUE

HasPrefixAt(s, i, p) ==
  /\ i + Len(p) - 1 <= Len(s)
  /\ \A k \in 1..Len(p) : s[i + k - 1] = p[k]

\* Python's "sub in s"
Contains(s, sub) == \E i \in 1..(Len(s) + 1) : HasPrefixAt(s, i, sub)

RECURSIVE SpanDigits(_, _)
SpanDigits(s, i) ==
  IF i <= Len(s) /\ IsDigit(s[i]) THEN 1 + SpanDigits(s, i + 1) ELSE 0

RECURSIVE SpanSpaces(_, _)
SpanSpaces(s, i) ==
  IF i <= Len(s) /\ IsSpace(s[i]) THEN 1 + SpanSpaces(s, i + 1) ELSE 0

RECURSIVE DigitsToNat(_)
DigitsToNat(ds) ==
  IF ds = <<>> THEN 0
  ELSE 10 * DigitsToNat(SubSeq(ds, 1, Len(ds) - 1)) + DigitVal(ds[Len(ds)])

RECURSIVE IntChars(_)
IntChars(n) ==
  IF n < 10 THEN <<Cifre[n + 1]>>
  ELSE IntChars(n \div 10) \o <<Cifre[(n % 10) + 1]>>

RECURSIVE Pow10(_)
Pow10(k) == IF k = 0 THEN 1 ELSE 10 * Pow10(k - 1)

(***************************************************************************)
(* Quantities (src/app.py, parse_quantita .. formatta_quantita)            *)
(*                                                                         *)
(* A value is the exact decimal n/d (the code holds a binary float).  The  *)
(* two differ only where "%.1f" meets a decimal tie: there the direction   *)
(* depends on the binary expansion of the float, and formatta_quantita     *)
(* takes it as the parameter su, chosen freely by every caller.            *)
(***************************************************************************)
Num(n, d) == [n |-> n, d |-> d]
Zero == Num(0, 1)
NumMul(v, k) == Num(v.n * k, v.d)
NumDiv(v, k) == Num(v.n, v.d * k)
NumAdd(a, b) == Num(a.n * b.d + b.n * a.d, a.d * b.d)
NumGeq(v, k) == v.n >= k * v.d
NumIsInt(v) == v.n % v.d = 0
NumEq(a, b) == a.n * b.d = b.n * a.d

U_qb == <<"q","b">>
U_g == <<"g">>
U_kg == <<"k","g">>
U_l == <<"l">>
U_ml == <<"m","l">>
U_cl == <<"c","l">>
U_unita == <<"u","n","i","t","agrave">>

\* the phrases of line 110
FRASI_QB == {<<"q",".","b",".">>, <<"q","b">>, <<"q","u","a","n","t","o"," ","b","a","s","t","a">>, <<"a"," ","p","i","a","c","e","r","e">>}

\* the alternatives of the unit group of the pattern of line 114, in order
UNITA_RE == <<<<"k","g">>, <<"g">>, <<"l">>, <<"m","l">>, <<"c","l">>, <<"u","n","i","t","agrave">>, <<"p","e","z","z","i">>, <<"b","i","c","c","h","i","e","r","e">>, <<"b","u","s","t","i","n","a">>, <<"c","o","s","t","a">>, <<"s","t","e","c","c","a">>, <<"f","o","g","l","i","o">>, <<"f","o","g","l","i">>, <<"p","i","c","c","o","l","a">>>>

\* None where a text is expected: the value csv.DictReader gives a column
\* the line has no field for
NoneText == <<"None">>

\* parse_quantita whose returns of lines 130 and 132 give the count unit
parse_senza_qb(quantita_str) ==
  LET s == lower(strip(quantita_str))
      ni == SpanDigits(s, 1)                       \* \d+
      dot == IF ni + 1 <= Len(s) /\ s[ni + 1] = "." THEN 1 ELSE 0   \* \.?
      nf == IF dot = 1 THEN SpanDigits(s, ni + 2) ELSE 0            \* \d*
      fine == ni + dot + nf + 1
      dopo == fine + SpanSpaces(s, fine)           \* \s*
      hits == {k \in 1..Len(UNITA_RE) : HasPrefixAt(s, dopo, UNITA_RE[k])}
      unita == IF hits = {} THEN U_unita
               ELSE UNITA_RE[CHOOSE k \in hits : \A j \in hits : k <= j]
      numero == Num(DigitsToNat(SubSeq(s, 1, ni) \o SubSeq(s, ni + 2, ni + 1 + nf)),
                    Pow10(nf))
  IN IF quantita_str = NoneText THEN <<Zero, U_unita>>
     ELSE IF s \in FRASI_QB THEN <<Zero, U_qb>>
     ELSE IF ni = 0 THEN <<Zero, U_unita>>
     ELSE IF unita = U_kg THEN <<NumMul(numero, 1000), U_g>>
     ELSE IF unita = U_l THEN <<NumMul(numero, 1000), U_ml>>
     ELSE IF unita = U_cl THEN <<NumMul(numero, 10), U_ml>>
     ELSE <<numero, unita>>

parse_quantita(quantita_str) ==
  LET s == lower(strip(quantita_str))
      ni == SpanDigits(s, 1)                       \* \d+
      dot == IF ni + 1 <= Len(s) /\ s[ni + 1] = "." THEN 1 ELSE 0   \* \.?
      nf == IF dot = 1 THEN SpanDigits(s, ni + 2) ELSE 0            \* \d*
      fine == ni + dot + nf + 1
      dopo == fine + SpanSpaces(s, fine)           \* \s*
      hits == {k \in 1..Len(UNITA_RE) : HasPrefixAt(s, dopo, UNITA_RE[k])}
      unita == IF hits = {} THEN U_unita
               ELSE UNITA_RE[CHOOSE k \in hits : \A j \in hits : k <= j]
      numero == Num(DigitsToNat(SubSeq(s, 1, ni) \o SubSeq(s, ni + 2, ni + 1 + nf)),
                    Pow10(nf))
  IN IF quantita_str = NoneText THEN <<Zero, U_qb>>   \* .strip() raises: lines 131-132
     ELSE IF s \in FRASI_QB THEN <<Zero, U_qb>>
     ELSE IF ni = 0 THEN <<Zero, U_qb>>
     ELSE IF unita = U_kg THEN <<NumMul(numero, 1000), U_g>>
     ELSE IF unita = U_l THEN <<NumMul(numero, 1000), U_ml>>
     ELSE IF unita = U_cl THEN <<NumMul(numero, 10), U_ml>>
     ELSE <<numero, unita>>

\* f"{v:.1f}": v rounded to one decimal; su decides a decimal tie
UnDecimale(v, su) ==
  LET q == (10 * v.n) \div v.d
      r == (10 * v.n) % v.d
      t == IF 2 * r > v.d \/ (2 * r = v.d /\ su) THEN q + 1 ELSE q
  IN IntChars(t \div 10) \o <<".">> \o <<Cifre[(t % 10) + 1]>>

formatta_quantita(valore, unita, su) ==
  IF unita = U_qb THEN <<"q",".","b",".">>
  ELSE IF unita = U_g /\ NumGeq(valore, 1000)
       THEN UnDecimale(NumDiv(valore, 1000), su) \o <<" ">> \o U_kg
  ELSE IF unita = U_ml /\ NumGeq(valore, 1000)
       THEN UnDecimale(NumDiv(valore, 1000), su) \o <<" ">> \o U_l
  ELSE IF NumIsInt(valore)
       THEN IntChars(valore.n \div valore.d) \o <<" ">> \o unita
  ELSE UnDecimale(valore, su) \o <<" ">> \o unita

\* somma_quantita that gives q.b. as soon as the first quantity is q.b.
somma_prima_qb(q1_str, q2_str, su) ==
  LET p1 == parse_quantita(q1_str)
      p2 == parse_quantita(q2_str)
  IN IF p1[2] = U_qb THEN <<"q",".","b",".">>
     ELSE IF p2[2] = U_qb THEN formatta_quantita(p1[1], p1[2], su)
     ELSE IF p1[2] # p2[2] THEN formatta_quantita(p1[1], p1[2], su)
     ELSE formatta_quantita(NumAdd(p1[1], p2[1]), p1[2], su)

somma_quantita(q1_str, q2_str, su) ==
  LET p1 == parse_quantita(q1_str)
      p2 == parse_quantita(q2_str)
  IN IF p1[2] = U_qb THEN formatta_quantita(p2[1], p2[2], su)
     ELSE IF p2[2] = U_qb THEN formatta_quantita(p1[1], p1[2], su)
     ELSE IF p1[2] # p2[2] THEN formatta_quantita(p1[1], p1[2], su)
     ELSE formatta_quantita(NumAdd(p1[1], p2[1]), p1[2], su)

\* moltiplica_quantita that leaves the quantity as it is
moltiplica_senza_fattore(quantita_str, moltiplicatore, su) ==
  LET p == parse_quantita(quantita_str)
  IN formatta_quantita(p[1], p[2], su)

moltiplica_quantita(quantita_str, moltiplicatore, su) ==
  LET p == parse_quantita(quantita_str)
  IN IF p[2] = U_qb THEN <<"q",".","b",".">>
     ELSE formatta_quantita(NumMul(p[1], moltiplicatore), p[2], su)

(***************************************************************************)
(* The ingredient classifier (src/classificatore_ingredienti.py)           *)
(***************************************************************************)
None == "None"

\* lines 15-48: the static dictionary, categories and keywords in order
CATEGORIE_BASE == <<
  [categoria |-> "Frutta e Verdura", keywords |-> <<
     <<"p","o","m","o","d","o","r","o">>,
     <<"c","i","p","o","l","l","a">>,
     <<"a","g","l","i","o">>,
     <<"c","a","r","o","t","a">>,
     <<"s","e","d","a","n","o">>,
     <<"p","r","e","z","z","e","m","o","l","o">>,
     <<"b","a","s","i","l","i","c","o">>,
     <<"r","u","c","o","l","a">>,
     <<"i","n","s","a","l","a","t","a">>,
     <<"l","a","t","t","u","g","a">>,
     <<"z","u","c","c","h","i","n","a">>,
     <<"m","e","l","a","n","z","a","n","a">>,
     <<"p","e","p","e","r","o","n","e">>,
     <<"p","a","t","a","t","a">>,
     <<"s","p","i","n","a","c","i">>,
     <<"f","u","n","g","h","i">>,
     <<"l","i","m","o","n","e">>,
     <<"a","r","a","n","c","i","a">>,
     <<"m","e","l","a">>,
     <<"f","r","a","g","o","l","a">>,
     <<"f","r","u","t","t","i"," ","r","o","s","s","i">>,
     <<"p","o","m","o","d","o","r","i","n","i">>,
     <<"c","i","l","i","e","g","i","n","o">>,
     <<"d","a","t","t","e","r","i","n","i">>
  >>],
  [categoria |-> "Macelleria e Pescheria", keywords |-> <<
     <<"c","a","r","n","e">>,
     <<"m","a","n","z","o">>,
     <<"v","i","t","e","l","l","o">>,
     <<"m","a","i","a","l","e">>,
     <<"p","o","l","l","o">>,
     <<"t","a","c","c","h","i","n","o">>,
     <<"c","o","s","t","o","l","e","t","t","a">>,
     <<"f","i","l","e","t","t","o">>,
     <<"s","a","l","s","i","c","c","i","a">>,
     <<"p","a","n","c","e","t","t","a">>,
     <<"g","u","a","n","c","i","a","l","e">>,
     <<"p","r","o","s","c","i","u","t","t","o">>,
     <<"b","r","e","s","a","o","l","a">>,
     <<"p","e","s","c","e">>,
     <<"b","r","a","n","z","i","n","o">>,
     <<"s","a","l","m","o","n","e">>,
     <<"t","o","n","n","o">>,
     <<"g","a","m","b","e","r","i">>,
     <<"v","o","n","g","o","l","e">>,
     <<"c","a","r","n","e"," ","m","a","c","i","n","a","t","a">>
  >>],
  [categoria |-> "Latticini e Uova", keywords |-> <<
     <<"l","a","t","t","e">>,
     <<"p","a","n","n","a">>,
     <<"b","u","r","r","o">>,
     <<"m","a","s","c","a","r","p","o","n","e">>,
     <<"r","i","c","o","t","t","a">>,
     <<"m","o","z","z","a","r","e","l","l","a">>,
     <<"p","a","r","m","i","g","i","a","n","o">>,
     <<"g","r","a","n","a">>,
     <<"p","e","c","o","r","i","n","o">>,
     <<"f","o","r","m","a","g","g","i","o">>,
     <<"y","o","g","u","r","t">>,
     <<"u","o","v","a">>,
     <<"u","o","v","o">>,
     <<"g","r","a","n","a"," ","p","a","d","a","n","o">>,
     <<"p","a","r","m","i","g","i","a","n","o"," ","r","e","g","g","i","a","n","o">>
  >>],
  [categoria |-> "Dispensa e Cereali", keywords |-> <<
     <<"p","a","s","t","a">>,
     <<"r","i","s","o">>,
     <<"f","a","r","i","n","a">>,
     <<"p","a","n","e">>,
     <<"p","a","n","g","r","a","t","t","a","t","o">>,
     <<"o","l","i","o">>,
     <<"a","c","e","t","o">>,
     <<"s","a","l","e">>,
     <<"p","e","p","e">>,
     <<"z","u","c","c","h","e","r","o">>,
     <<"z","a","f","f","e","r","a","n","o">>,
     <<"b","r","o","d","o">>,
     <<"p","a","s","s","a","t","a">>,
     <<"p","e","l","a","t","i">>,
     <<"f","a","g","i","o","l","i">>,
     <<"c","e","c","i">>,
     <<"l","e","n","t","i","c","c","h","i","e">>,
     <<"l","a","s","a","g","n","e">>,
     <<"b","e","s","c","i","a","m","e","l","l","a">>,
     <<"s","u","g","o">>,
     <<"o","l","i","o"," ","e","v","o">>,
     <<"r","i","s","o"," ","c","a","r","n","a","r","o","l","i">>,
     <<"r","i","s","o"," ","a","r","b","o","r","i","o">>
  >>],
  [categoria |-> "Bevande", keywords |-> <<
     <<"v","i","n","o">>,
     <<"b","i","r","r","a">>,
     <<"a","c","q","u","a">>,
     <<"c","a","f","f","egrave">>,
     <<"t","egrave">>,
     <<"s","u","c","c","o">>,
     <<"v","i","n","o"," ","b","i","a","n","c","o">>,
     <<"v","i","n","o"," ","r","o","s","s","o">>
  >>],
  [categoria |-> "Dolci e Dessert", keywords |-> <<
     <<"c","i","o","c","c","o","l","a","t","o">>,
     <<"c","a","c","a","o">>,
     <<"g","e","l","a","t","i","n","a">>,
     <<"v","a","n","i","g","l","i","a">>,
     <<"m","a","n","d","o","r","l","e">>,
     <<"n","o","c","c","i","o","l","e">>,
     <<"s","a","v","o","i","a","r","d","i">>,
     <<"b","i","s","c","o","t","t","i">>,
     <<"m","i","e","l","e">>,
     <<"m","a","r","m","e","l","l","a","t","a">>,
     <<"c","a","c","a","o"," ","a","m","a","r","o">>,
     <<"z","u","c","c","h","e","r","o"," ","a"," ","v","e","l","o">>
  >>],
  [categoria |-> "Surgelati", keywords |-> <<
     <<"p","i","s","e","l","l","i"," ","s","u","r","g","e","l","a","t","i">>,
     <<"s","p","i","n","a","c","i"," ","s","u","r","g","e","l","a","t","i">>,
     <<"g","e","l","a","t","o">>
  >>]
>>

\* lines 167-170
CATEGORIE_VALIDE ==
  <<"Frutta e Verdura", "Macelleria e Pescheria", "Latticini e Uova",
    "Dispensa e Cereali", "Bevande", "Dolci e Dessert", "Surgelati", "Altri">>

\* lines 192-256: the patterns of the local heuristic, one token per
\* element: "\\b", "\\w", "\\s" and "." are the classes of the pattern
\* language, "+", "*" and "?" quantify the token before them, every other
\* token is a literal character
PATTERNS == <<
  [categoria |-> "Frutta e Verdura", pattern_list |-> <<
     <<"\\b","f","r","u","t","t","a","\\b">>,  \* \bfrutta\b
     <<"\\b","v","e","r","d","u","r","a","\\b">>,  \* \bverdura\b
     <<"\\b","i","n","s","a","l","a","t","a","\\b">>,  \* \binsalata\b
     <<"\\b","o","r","t","a","g","g","i","\\b">>,  \* \bortaggi\b
     <<"\\b","f","o","g","l","i","e","\\b">>,  \* \bfoglie\b
     <<"\\b","v","e","r","d","i","\\b">>,  \* \bverdi\b
     <<"\\b","f","r","e","s","c","o","\\b">>,  \* \bfresco\b
     <<"\\b","p","o","m","o","d","o","r","\\w","+">>,  \* \bpomodor\w+
     <<"\\b","c","i","p","o","l","l","e","?","\\b">>,  \* \bcipolle?\b
     <<"\\b","a","g","l","i","o","\\b">>,  \* \baglio\b
     <<"\\b","c","a","r","o","t","e","?","\\b">>,  \* \bcarote?\b
     <<"\\b","s","e","d","a","n","o","\\b">>,  \* \bsedano\b
     <<"\\b","z","u","c","c","h","i","n","e","?","\\b">>,  \* \bzucchine?\b
     <<"\\b","m","e","l","a","n","z","a","n","e","?","\\b">>,  \* \bmelanzane?\b
     <<"\\b","p","e","p","e","r","o","n","\\w","+">>,  \* \bpeperon\w+
     <<"\\b","p","a","t","a","t","e","?","\\b">>,  \* \bpatate?\b
     <<"\\b","s","p","i","n","a","c","i","\\b">>,  \* \bspinaci\b
     <<"\\b","f","u","n","g","h","i","\\b">>,  \* \bfunghi\b
     <<"\\b","l","i","m","o","n","e","\\b">>,  \* \blimone\b
     <<"\\b","a","r","a","n","c","i","a","\\b">>,  \* \barancia\b
     <<"\\b","m","e","l","a","\\b">>,  \* \bmela\b
     <<"\\b","f","r","a","g","o","l","\\w","+">>,  \* \bfragol\w+
     <<"\\b","f","r","u","t","t","i","\\b">>,  \* \bfrutti\b
     <<"\\b","v","e","r","d","u","r","e","\\b">>,  \* \bverdure\b
     <<"\\b","b","a","s","i","l","i","c","\\w","+">>,  \* \bbasilic\w+
     <<"\\b","p","r","e","z","z","e","m","\\w","+">>,  \* \bprezzem\w+
     <<"\\b","r","u","c","o","l","a","\\b">>,  \* \brucola\b
     <<"\\b","l","a","t","t","u","g","a","\\b">>,  \* \blattuga\b
     <<"\\b","r","a","d","i","c","c","h","i","o","\\b">>,  \* \bradicchio\b
     <<"\\b","b","r","o","c","c","o","l","i","\\b">>,  \* \bbroccoli\b
     <<"\\b","c","a","v","o","l","f","i","o","r","e","\\b">>,  \* \bcavolfiore\b
     <<"\\b","a","s","p","a","r","a","g","i","\\b">>,  \* \basparagi\b
     <<"\\b","f","i","n","o","c","c","h","i","o","\\b">>,  \* \bfinocchio\b
     <<"\\b","c","e","t","r","i","o","l","o","\\b">>,  \* \bcetriolo\b
     <<"\\b","p","e","p","e","r","o","n","c","i","n","\\w","+">>,  \* \bpeperoncin\w+
     <<"\\b","c","i","l","i","e","g","i","n","\\w","+">>,  \* \bciliegin\w+
     <<"\\b","d","a","t","t","e","r","i","n","i","\\b">>,  \* \bdatterini\b
     <<"\\b","r","o","s","m","a","r","i","n","o","\\b">>,  \* \brosmarino\b
     <<"\\b","s","a","l","v","i","a","\\b">>,  \* \bsalvia\b
     <<"\\b","t","i","m","o","\\b">>,  \* \btimo\b
     <<"\\b","o","r","i","g","a","n","o","\\b">>,  \* \borigano\b
     <<"\\b","m","e","n","t","a","\\b">>  \* \bmenta\b
  >>],
  [categoria |-> "Macelleria e Pescheria", pattern_list |-> <<
     <<"\\b","c","a","r","n","e","\\b">>,  \* \bcarne\b
     <<"\\b","p","e","s","c","e","\\b">>,  \* \bpesce\b
     <<"\\b","f","i","l","e","t","t","o","\\b">>,  \* \bfiletto\b
     <<"\\b","f","e","t","t","a","\\b">>,  \* \bfetta\b
     <<"\\b","m","a","c","i","n","a","t","o","\\b">>,  \* \bmacinato\b
     <<"\\b","t","r","a","n","c","i","o","\\b">>,  \* \btrancio\b
     <<"\\b","f","e","s","a","\\b">>,  \* \bfesa\b
     <<"\\b","t","a","g","l","i","a","t","a","\\b">>,  \* \btagliata\b
     <<"\\b","v","i","t","e","l","l","o","\\b">>,  \* \bvitello\b
     <<"\\b","m","a","n","z","o","\\b">>,  \* \bmanzo\b
     <<"\\b","m","a","i","a","l","e","\\b">>,  \* \bmaiale\b
     <<"\\b","p","o","l","l","o","\\b">>,  \* \bpollo\b
     <<"\\b","t","a","c","c","h","i","n","o","\\b">>,  \* \btacchino\b
     <<"\\b","c","o","s","t","o","l","e","t","t","a","\\b">>,  \* \bcostoletta\b
     <<"\\b","s","a","l","s","i","c","c","i","a","\\b">>,  \* \bsalsiccia\b
     <<"\\b","p","a","n","c","e","t","t","a","\\b">>,  \* \bpancetta\b
     <<"\\b","g","u","a","n","c","i","a","l","e","\\b">>,  \* \bguanciale\b
     <<"\\b","p","r","o","s","c","i","u","t","t","o","\\b">>,  \* \bprosciutto\b
     <<"\\b","b","r","e","s","a","o","l","a","\\b">>,  \* \bbresaola\b
     <<"\\b","s","p","e","c","k","\\b">>,  \* \bspeck\b
     <<"\\b","s","a","l","m","o","n","e","\\b">>,  \* \bsalmone\b
     <<"\\b","t","o","n","n","o","\\b">>,  \* \btonno\b
     <<"\\b","g","a","m","b","e","r","i","\\b">>,  \* \bgamberi\b
     <<"\\b","v","o","n","g","o","l","e","\\b">>,  \* \bvongole\b
     <<"\\b","c","o","z","z","e","\\b">>,  \* \bcozze\b
     <<"\\b","c","a","l","a","m","a","r","i","\\b">>,  \* \bcalamari\b
     <<"\\b","p","o","l","p","o","\\b">>,  \* \bpolpo\b
     <<"\\b","b","r","a","n","z","i","n","o","\\b">>,  \* \bbranzino\b
     <<"\\b","o","r","a","t","a","\\b">>,  \* \borata\b
     <<"\\b","m","e","r","l","u","z","z","o","\\b">>,  \* \bmerluzzo\b
     <<"\\b","a","c","c","i","u","g","h","e","\\b">>,  \* \bacciughe\b
     <<"\\b","a","l","i","c","i","\\b">>  \* \balici\b
  >>],
  [categoria |-> "Latticini e Uova", pattern_list |-> <<
     <<"\\b","l","a","t","t","e","\\b">>,  \* \blatte\b
     <<"\\b","f","o","r","m","a","g","g","i","?","o","?","\\b">>,  \* \bformaggi?o?\b
     <<"\\b","u","o","v","a","?","\\b">>,  \* \buova?\b
     <<"\\b","p","a","n","n","a","\\b">>,  \* \bpanna\b
     <<"\\b","b","u","r","r","o","\\b">>,  \* \bburro\b
     <<"\\b","y","o","g","u","r","t","\\b">>,  \* \byogurt\b
     <<"\\b","a","l","b","u","m","e","\\b">>,  \* \balbume\b
     <<"\\b","t","u","o","r","l","o","\\b">>,  \* \btuorlo\b
     <<"\\b","m","a","s","c","a","r","p","o","n","e","\\b">>,  \* \bmascarpone\b
     <<"\\b","r","i","c","o","t","t","a","\\b">>,  \* \bricotta\b
     <<"\\b","m","o","z","z","a","r","e","l","l","a","\\b">>,  \* \bmozzarella\b
     <<"\\b","p","a","r","m","i","g","i","a","n","o","\\b">>,  \* \bparmigiano\b
     <<"\\b","g","r","a","n","a","\\b">>,  \* \bgrana\b
     <<"\\b","p","e","c","o","r","i","n","o","\\b">>,  \* \bpecorino\b
     <<"\\b","s","c","a","m","o","r","z","a","\\b">>,  \* \bscamorza\b
     <<"\\b","p","r","o","v","o","l","a","\\b">>,  \* \bprovola\b
     <<"\\b","f","o","n","t","i","n","a","\\b">>,  \* \bfontina\b
     <<"\\b","g","o","r","g","o","n","z","o","l","a","\\b">>,  \* \bgorgonzola\b
     <<"\\b","t","a","l","e","g","g","i","o","\\b">>,  \* \btaleggio\b
     <<"\\b","s","t","r","a","c","c","h","i","n","o","\\b">>,  \* \bstracchino\b
     <<"\\b","c","r","e","s","c","e","n","z","a","\\b">>,  \* \bcrescenza\b
     <<"\\b","c","r","e","a","m","\\b">>  \* \bcream\b
  >>],
  [categoria |-> "Dispensa e Cereali", pattern_list |-> <<
     <<"\\b","p","a","s","t","a","\\b">>,  \* \bpasta\b
     <<"\\b","r","i","s","o","\\b">>,  \* \briso\b
     <<"\\b","f","a","r","i","n","a","\\b">>,  \* \bfarina\b
     <<"\\b","c","e","r","e","a","l","i","\\b">>,  \* \bcereali\b
     <<"\\b","s","c","a","t","o","l","a","\\b">>,  \* \bscatola\b
     <<"\\b","c","o","n","s","e","r","v","a","\\b">>,  \* \bconserva\b
     <<"\\b","s","o","t","t",".","*","o","l","i","o","\\b">>,  \* \bsott.*olio\b
     <<"\\b","s","e","c","c","o","\\b">>,  \* \bsecco\b
     <<"\\b","o","l","i","o","\\b">>,  \* \bolio\b
     <<"\\b","a","c","e","t","o","\\b">>,  \* \baceto\b
     <<"\\b","s","a","l","e","\\b">>,  \* \bsale\b
     <<"\\b","p","e","p","e","\\b">>,  \* \bpepe\b
     <<"\\b","s","p","e","z","i","e","\\b">>,  \* \bspezie\b
     <<"\\b","l","a","s","a","g","n","e","\\b">>,  \* \blasagne\b
     <<"\\b","p","a","n","e","\\b">>,  \* \bpane\b
     <<"\\b","p","a","n","g","r","a","t","t","a","t","o","\\b">>,  \* \bpangrattato\b
     <<"\\b","b","r","o","d","o","\\b">>,  \* \bbrodo\b
     <<"\\b","f","a","g","i","o","l","i","\\b">>,  \* \bfagioli\b
     <<"\\b","c","e","c","i","\\b">>,  \* \bceci\b
     <<"\\b","l","e","n","t","i","c","c","h","i","e","\\b">>,  \* \blenticchie\b
     <<"\\b","p","e","l","a","t","i","\\b">>,  \* \bpelati\b
     <<"\\b","p","a","s","s","a","t","a","\\b">>,  \* \bpassata\b
     <<"\\b","c","o","n","c","e","n","t","r","a","t","o","\\b">>,  \* \bconcentrato\b
     <<"\\b","s","u","g","o","\\b">>,  \* \bsugo\b
     <<"\\b","p","e","s","t","o","\\b">>,  \* \bpesto\b
     <<"\\b","z","a","f","f","e","r","a","n","o","\\b">>,  \* \bzafferano\b
     <<"\\b","c","u","r","r","y","\\b">>,  \* \bcurry\b
     <<"\\b","p","a","p","r","i","k","a","\\b">>,  \* \bpaprika\b
     <<"\\b","c","u","r","c","u","m","a","\\b">>,  \* \bcurcuma\b
     <<"\\b","p","e","p","e","r","o","n","c","i","n","o","\\b">>,  \* \bpeperoncino\b
     <<"\\b","z","e","n","z","e","r","o","\\b">>,  \* \bzenzero\b
     <<"\\b","c","a","n","n","e","l","l","a","\\b">>,  \* \bcannella\b
     <<"\\b","n","o","c","\\w","+","\\s","+","m","o","s","c","a","t","a","\\b">>,  \* \bnoc\w+\s+moscata\b
     <<"\\b","a","l","l","o","r","o","\\b">>,  \* \balloro\b
     <<"\\b","d","a","d","o","\\b">>,  \* \bdado\b
     <<"\\b","o","l","i","v","e","\\b">>,  \* \bolive\b
     <<"\\b","c","a","p","p","e","r","i","\\b">>,  \* \bcapperi\b
     <<"\\b","f","a","r","r","o","\\b">>,  \* \bfarro\b
     <<"\\b","o","r","z","o","\\b">>,  \* \borzo\b
     <<"\\b","q","u","i","n","o","a","\\b">>,  \* \bquinoa\b
     <<"\\b","c","o","u","s","c","o","u","s","\\b">>,  \* \bcouscous\b
     <<"\\b","p","o","l","e","n","t","a","\\b">>,  \* \bpolenta\b
     <<"\\b","s","p","a","g","h","e","t","t","i","\\b">>,  \* \bspaghetti\b
     <<"\\b","p","e","n","n","e","\\b">>,  \* \bpenne\b
     <<"\\b","r","i","g","a","t","o","n","i","\\b">>,  \* \brigatoni\b
     <<"\\b","t","a","g","l","i","a","t","e","l","l","e","\\b">>,  \* \btagliatelle\b
     <<"\\b","b","e","s","c","i","a","m","e","l","l","a","\\b">>,  \* \bbesciamella\b
     <<"\\b","r","a","g","ugrave","\\b">>,  \* \bragù\b
     <<"\\b","e","v","o","\\b">>,  \* \bevo\b
     <<"\\b","e","x","t","r","a","v","e","r","g","i","n","e","\\b">>,  \* \bextravergine\b
     <<"\\b","b","a","l","s","a","m","i","c","o","\\b">>  \* \bbalsamico\b
  >>],
  [categoria |-> "Bevande", pattern_list |-> <<
     <<"\\b","v","i","n","o","\\b">>,  \* \bvino\b
     <<"\\b","b","i","r","r","a","\\b">>,  \* \bbirra\b
     <<"\\b","a","c","q","u","a","\\b">>,  \* \bacqua\b
     <<"\\b","b","e","v","a","n","d","a","\\b">>,  \* \bbevanda\b
     <<"\\b","l","i","q","u","o","r","e","\\b">>,  \* \bliquore\b
     <<"\\b","c","a","f","f","egrave","\\b">>,  \* \bcaffè\b
     <<"\\b","t","egrave","\\b">>,  \* \btè\b
     <<"\\b","s","u","c","c","o","\\b">>,  \* \bsucco\b
     <<"\\b","b","i","a","n","c","o","\\b",".","*","\\b","v","i","n","o","\\b">>,  \* \bbianco\b.*\bvino\b
     <<"\\b","r","o","s","s","o","\\b",".","*","\\b","v","i","n","o","\\b">>,  \* \brosso\b.*\bvino\b
     <<"\\b","m","a","r","s","a","l","a","\\b">>  \* \bmarsala\b
  >>],
  [categoria |-> "Dolci e Dessert", pattern_list |-> <<
     <<"\\b","d","o","l","c","e","\\b">>,  \* \bdolce\b
     <<"\\b","c","i","o","c","c","o","l","a","t","\\b">>,  \* \bcioccolat\b
     <<"\\b","c","a","c","a","o","\\b">>,  \* \bcacao\b
     <<"\\b","z","u","c","c","h","e","r","o","\\b">>,  \* \bzucchero\b
     <<"\\b","m","i","e","l","e","\\b">>,  \* \bmiele\b
     <<"\\b","c","r","e","m","a","\\b">>,  \* \bcrema\b
     <<"\\b","g","e","l","a","t","\\b">>,  \* \bgelat\b
     <<"\\b","b","i","s","c","o","t","t","\\b">>,  \* \bbiscott\b
     <<"\\b","t","o","r","t","a","\\b">>,  \* \btorta\b
     <<"\\b","d","e","s","s","e","r","t","\\b">>,  \* \bdessert\b
     <<"\\b","s","a","v","o","i","a","r","d","i","\\b">>,  \* \bsavoiardi\b
     <<"\\b","v","a","n","i","g","l","i","a","\\b">>,  \* \bvaniglia\b
     <<"\\b","m","a","n","d","o","r","l","e","\\b">>,  \* \bmandorle\b
     <<"\\b","n","o","c","c","i","o","l","e","\\b">>,  \* \bnocciole\b
     <<"\\b","g","e","l","a","t","i","n","a","\\b">>,  \* \bgelatina\b
     <<"\\b","n","o","c","i","\\b">>,  \* \bnoci\b
     <<"\\b","p","i","s","t","a","c","c","h","i","\\b">>,  \* \bpistacchi\b
     <<"\\b","p","i","n","o","l","i","\\b">>,  \* \bpinoli\b
     <<"\\b","u","v","e","t","t","a","\\b">>,  \* \buvetta\b
     <<"\\b","c","a","n","d","i","t","i","\\b">>,  \* \bcanditi\b
     <<"\\b","a","m","a","r","e","t","t","\\w","+">>,  \* \bamarett\w+
     <<"\\b","c","a","n","t","u","c","c","\\w","+">>,  \* \bcantucc\w+
     <<"\\b","a","\\s","+","v","e","l","o","\\b">>,  \* \ba\s+velo\b
     <<"\\b","a","m","a","r","o","\\b">>,  \* \bamaro\b
     <<"\\b","f","o","n","d","e","n","t","e","\\b">>,  \* \bfondente\b
     <<"\\b","g","o","c","c","e","\\b",".","*","\\b","c","i","o","c","c","o","l","a","t","\\b">>  \* \bgocce\b.*\bcioccolat\b
  >>],
  [categoria |-> "Surgelati", pattern_list |-> <<
     <<"\\b","s","u","r","g","e","l","a","t","\\b">>,  \* \bsurgelat\b
     <<"\\b","c","o","n","g","e","l","a","t","\\b">>,  \* \bcongelat\b
     <<"\\b","f","r","o","z","e","n","\\b">>,  \* \bfrozen\b
     <<"\\b","g","h","i","a","c","c","i","o","\\b">>  \* \bghiaccio\b
  >>]
>>

EmptyMap == [x \in {} |-> None]
Put(m, k, v) == [x \in (DOMAIN m) \cup {k} |-> IF x = k THEN v ELSE m[x]]

\* \w of the pattern language: letters, digits and the underscore
IsWordChar(c) ==
  \/ \E i \in 1..Len(Minuscole) : Minuscole[i] = c \/ Maiuscole[i] = c
  \/ IsDigit(c)
  \/ c \in {"_", "eacute", "igrave", "ograve", "ugrave"}

\* \b at position i: exactly one of s[i-1], s[i] is a word character
AtBoundary(s, i) ==
  LET prima == i > 1 /\ i - 1 <= Len(s) /\ IsWordChar(s[i - 1])
      dopo == i <= Len(s) /\ IsWordChar(s[i])
  IN prima # dopo

AtomMatches(a, c) ==
  IF a = "\\w" THEN IsWordChar(c)
  ELSE IF a = "\\s" THEN IsSpace(c)
  ELSE IF a = "." THEN TRUE
  ELSE LowerChar(a) = LowerChar(c)      \* re.IGNORECASE

\* whether pattern p from token k on matches s from position i on
RECURSIVE ReMatchAt(_, _, _, _)
ReMatchAt(p, k, s, i) ==
  IF k > Len(p) THEN TRUE
  ELSE
    LET a == p[k]
        q == IF k + 1 <= Len(p) /\ p[k + 1] \in {"+", "*", "?"} THEN p[k + 1] ELSE "1"
        run(j) == \A x \in i..(j - 1) : AtomMatches(a, s[x])
    IN IF a = "\\b" THEN AtBoundary(s, i) /\ ReMatchAt(p, k + 1, s, i)
       ELSE IF q = "1" THEN i <= Len(s) /\ AtomMatches(a, s[i]) /\ ReMatchAt(p, k + 1, s, i + 1)
       ELSE IF q = "?" THEN \/ i <= Len(s) /\ AtomMatches(a, s[i]) /\ ReMatchAt(p, k + 2, s, i + 1)
                            \/ ReMatchAt(p, k + 2, s, i)
       ELSE IF q = "+" THEN \E j \in (i + 1)..(Len(s) + 1) : run(j) /\ ReMatchAt(p, k + 2, s, j)
       ELSE \E j \in i..(Len(s) + 1) : run(j) /\ ReMatchAt(p, k + 2, s, j)

\* re.search(pattern, s, re.IGNORECASE) finds a match
re_search(p, s) == \E i \in 1..(Len(s) + 1) : ReMatchAt(p, 1, s, i)

normalize_ingredient(ingrediente) == strip(lower(ingrediente))

cerca_in_dizionario_base(ingrediente_norm) ==
  LET trovata(c) ==
        \E j \in 1..Len(CATEGORIE_BASE[c].keywords) :
          LET keyword == CATEGORIE_BASE[c].keywords[j]
          IN Contains(ingrediente_norm, keyword) \/ Contains(keyword, ingrediente_norm)
      hits == {c \in 1..Len(CATEGORIE_BASE) : trovata(c)}
  IN IF hits = {} THEN None
     ELSE CATEGORIE_BASE[CHOOSE c \in hits : \A d \in hits : c <= d].categoria

classifica_euristica(ingrediente) ==
  LET ing_norm == normalize_ingredient(ingrediente)
      trovata(c) ==
        \E j \in 1..Len(PATTERNS[c].pattern_list) :
          re_search(PATTERNS[c].pattern_list[j], ing_norm)
      hits == {c \in 1..Len(PATTERNS) : trovata(c)}
  IN IF hits = {} THEN "Altri"
     ELSE PATTERNS[CHOOSE c \in hits : \A d \in hits : c <= d].categoria

\* Every ingredient name the specifications below use.  The dictionary and
\* the heuristic are evaluated once for each of them and looked up in the
\* calls (the tables are what the two searches return, computed once).
NomiNoti ==
  { <<"P","a","s","t","a">>,
    <<" ","p","a","s","t","a"," ">>,
    <<"S","p","e","c","k">>,
    <<"E","d","a","m","a","m","e">>,
    <<"T","o","n","n","o"," ","i","n"," ","s","c","a","t","o","l","a">>,
    <<"R","i","s","o">>,
    <<"P","o","l","l","o">>,
    <<"P","a","n","e">>,
    <<"S","a","l","e">>,
    <<"p","a","s","t","a">>,
    <<"L","a","t","t","e">> }
TabellaBase ==
  {<<n, cerca_in_dizionario_base(n)>> : n \in {normalize_ingredient(x) : x \in NomiNoti}}
TabellaEuristica ==
  {<<n, classifica_euristica(n)>> : n \in NomiNoti}
memo_dizionario_base(ingrediente_norm) ==
  IF \E p \in TabellaBase : p[1] = ingrediente_norm
  THEN (CHOOSE p \in TabellaBase : p[1] = ingrediente_norm)[2]
  ELSE cerca_in_dizionario_base(ingrediente_norm)
memo_euristica(ingrediente) ==
  IF \E p \in TabellaEuristica : p[1] = ingrediente
  THEN (CHOOSE p \in TabellaEuristica : p[1] = ingrediente)[2]
  ELSE classifica_euristica(ingrediente)

\* An optional value is a sequence of length 0 or 1: the cache file is
\* <<>> when it does not exist and <<its content>> when it does.
NoFile == <<>>

\* lines 67-76
load_cache(file) == IF file = NoFile THEN EmptyMap ELSE file[1]

\* lines 56-65; key: whether GROQ_API_KEY is set in the environment
ClassificatoreIngredienti(use_ai, key, file) ==
  [use_ai |-> use_ai,
   cache |-> load_cache(file),
   groq_api_key |-> key,
   stats |-> [cache_hits |-> 0, base_hits |-> 0, ai_queries |-> 0, unknown |-> 0]]

\* lines 117-183: the answer of the external service, when it is asked.
\* risposta is what the service yields for this request: a category of
\* CATEGORIE_VALIDE, or None (an error, a timeout, an unusable reply).
classifica_groq(c, risposta) ==
  IF ~c.groq_api_key THEN None ELSE risposta

\* classifica_con_ai without its first test: the heuristic also runs when
\* the instance was built with use_ai false
classifica_con_ai_senza_flag(c, ingrediente, risposta) ==
  IF c.groq_api_key /\ classifica_groq(c, risposta) # None
  THEN classifica_groq(c, risposta)
  ELSE memo_euristica(ingrediente)

\* lines 98-115
classifica_con_ai(c, ingrediente, risposta) ==
  IF ~c.use_ai THEN None
  ELSE IF c.groq_api_key /\ classifica_groq(c, risposta) # None
       THEN classifica_groq(c, risposta)
  ELSE memo_euristica(ingrediente)

\* classifica without its first tier: a cached name is resolved again
classifica_senza_cache(c, ingrediente, risposta) ==
  LET ing_norm == normalize_ingredient(ingrediente)
      base == memo_dizionario_base(ing_norm)
      ai == classifica_con_ai(c, ingrediente, risposta)
      nuovo(categoria, contatore, fonte) ==
        [c |-> [c EXCEPT !.cache = Put(@, ing_norm, categoria),
                         !.stats[contatore] = @ + 1],
         salvata |-> TRUE, categoria |-> categoria, fonte |-> fonte]
  IN IF base # None THEN nuovo(base, "base_hits", "base")
     ELSE IF ai # None /\ ai # "Altri" THEN nuovo(ai, "ai_queries", "ai")
     ELSE nuovo("Altri", "unknown", "unknown")

\* lines 266-303.  The result: the instance after the call, whether the
\* cache was saved, and the returned (categoria, fonte).
classifica(c, ingrediente, risposta) ==
  LET ing_norm == normalize_ingredient(ingrediente)
      base == memo_dizionario_base(ing_norm)
      ai == classifica_con_ai(c, ingrediente, risposta)
      nuovo(categoria, contatore, fonte) ==
        [c |-> [c EXCEPT !.cache = Put(@, ing_norm, categoria),
                         !.stats[contatore] = @ + 1],
         salvata |-> TRUE, categoria |-> categoria, fonte |-> fonte]
  IN IF ing_norm \in DOMAIN c.cache
     THEN [c |-> [c EXCEPT !.stats.cache_hits = @ + 1],
           salvata |-> FALSE, categoria |-> c.cache[ing_norm], fonte |-> "cache"]
     ELSE IF base # None THEN nuovo(base, "base_hits", "base")
     ELSE IF ai # None /\ ai # "Altri" THEN nuovo(ai, "ai_queries", "ai")
     ELSE nuovo("Altri", "unknown", "unknown")

\* a save that leaves out the names of the fallback category
save_cache_senza_altri(c) ==
  <<[k \in {x \in DOMAIN c.cache : c.cache[x] # "Altri"} |-> c.cache[k]]>>

\* lines 78-84: the file as it is after _save_cache
save_cache(c) == <<c.cache>>

\* lines 318-325
get_stats(c) ==
  c.stats.cache_hits + c.stats.base_hits + c.stats.ai_queries + c.stats.unknown

\* the variables of a component a specification does not use
(***************************************************************************)
(* schema_alimentare.py: weekly frequencies and protein categories         *)
(***************************************************************************)
\* str.split(sep) for a one-character separator
RECURSIVE split(_, _)
split(s, sep) ==
  IF \A i \in 1..Len(s) : s[i] # sep THEN <<s>>
  ELSE LET k == CHOOSE i \in 1..Len(s) : s[i] = sep /\ \A j \in 1..(i - 1) : s[j] # sep
       IN <<SubSeq(s, 1, k - 1)>> \o split(SubSeq(s, k + 1, Len(s)), sep)

\* lines 76-88, in the order of the dict
FREQUENZE_SETTIMANALI == <<
  [categoria |-> "legumi", min |-> 2, max |-> 2],
  [categoria |-> "uova", min |-> 0, max |-> 2],
  [categoria |-> "carne_bianca", min |-> 0, max |-> 3],
  [categoria |-> "carne_rossa", min |-> 0, max |-> 2],
  [categoria |-> "formaggi_freschi", min |-> 0, max |-> 3],
  [categoria |-> "formaggi_stagionati", min |-> 0, max |-> 1],
  [categoria |-> "pesce_bianco", min |-> 2, max |-> 4],
  [categoria |-> "pesce_grasso", min |-> 0, max |-> 1],
  [categoria |-> "crostacei_molluschi", min |-> 0, max |-> 1],
  [categoria |-> "tonno_scatola", min |-> 0, max |-> 1],
  [categoria |-> "affettati", min |-> 0, max |-> 1]
>>

\* lines 94-135, in the order of the dict
CATEGORIE_PROTEINE == <<
  [categoria |-> "legumi", keywords |-> <<
     <<"l","e","g","u","m","i">>,
     <<"f","a","g","i","o","l","i">>,
     <<"c","e","c","i">>,
     <<"l","e","n","t","i","c","c","h","i","e">>,
     <<"p","i","s","e","l","l","i">>,
     <<"f","a","v","e">>,
     <<"b","o","r","l","o","t","t","i">>,
     <<"c","a","n","n","e","l","l","i","n","i">>,
     <<"p","a","s","t","a"," ","d","i"," ","l","e","g","u","m","i">>
  >>],
  [categoria |-> "uova", keywords |-> <<
     <<"u","o","v","a">>,
     <<"u","o","v","o">>,
     <<"a","l","b","u","m","e">>,
     <<"f","r","i","t","t","a","t","a">>
  >>],
  [categoria |-> "carne_bianca", keywords |-> <<
     <<"p","o","l","l","o">>,
     <<"t","a","c","c","h","i","n","o">>,
     <<"p","e","t","t","o"," ","d","i"," ","p","o","l","l","o">>,
     <<"p","e","t","t","o"," ","d","i"," ","t","a","c","c","h","i","n","o">>,
     <<"f","e","s","a"," ","d","i"," ","t","a","c","c","h","i","n","o">>,
     <<"c","a","r","n","e"," ","b","i","a","n","c","a">>
  >>],
  [categoria |-> "carne_rossa", keywords |-> <<
     <<"m","a","n","z","o">>,
     <<"v","i","t","e","l","l","o">>,
     <<"c","a","r","n","e"," ","r","o","s","s","a">>,
     <<"b","i","s","t","e","c","c","a">>,
     <<"t","a","g","l","i","a","t","a">>,
     <<"l","o","n","z","a">>,
     <<"h","a","m","b","u","r","g","e","r"," ","d","i"," ","v","i","t","e","l","l","o">>
  >>],
  [categoria |-> "formaggi_freschi", keywords |-> <<
     <<"r","i","c","o","t","t","a">>,
     <<"m","o","z","z","a","r","e","l","l","a">>,
     <<"f","i","o","c","c","h","i"," ","d","i"," ","l","a","t","t","e">>,
     <<"f","e","t","a">>,
     <<"r","o","b","i","o","l","a">>,
     <<"p","r","i","m","o"," ","s","a","l","e">>,
     <<"c","a","p","r","i","n","o">>
  >>],
  [categoria |-> "formaggi_stagionati", keywords |-> <<
     <<"p","a","r","m","i","g","i","a","n","o">>,
     <<"g","r","a","n","a">>,
     <<"p","e","c","o","r","i","n","o">>,
     <<"p","a","r","m","i","g","i","a","n","o"," ","r","e","g","g","i","a","n","o">>,
     <<"g","r","a","n","a"," ","p","a","d","a","n","o">>
  >>],
  [categoria |-> "pesce_bianco", keywords |-> <<
     <<"m","e","r","l","u","z","z","o">>,
     <<"n","a","s","e","l","l","o">>,
     <<"p","l","a","t","e","s","s","a">>,
     <<"s","o","g","l","i","o","l","a">>,
     <<"o","r","a","t","a">>,
     <<"s","p","i","g","o","l","a">>,
     <<"b","r","a","n","z","i","n","o">>
  >>],
  [categoria |-> "pesce_grasso", keywords |-> <<
     <<"s","a","l","m","o","n","e">>,
     <<"t","r","o","t","a">>,
     <<"s","g","o","m","b","r","o">>,
     <<"t","o","n","n","o"," ","f","r","e","s","c","o">>,
     <<"a","l","i","c","i">>
  >>],
  [categoria |-> "crostacei_molluschi", keywords |-> <<
     <<"g","a","m","b","e","r","i">>,
     <<"g","a","m","b","e","r","e","t","t","i">>,
     <<"c","a","l","a","m","a","r","i">>,
     <<"v","o","n","g","o","l","e">>,
     <<"c","o","z","z","e">>,
     <<"p","o","l","p","o">>,
     <<"f","r","u","t","t","i"," ","d","i"," ","m","a","r","e">>
  >>],
  [categoria |-> "tonno_scatola", keywords |-> <<
     <<"t","o","n","n","o"," ","i","n"," ","s","c","a","t","o","l","a">>,
     <<"t","o","n","n","o"," ","a","l"," ","n","a","t","u","r","a","l","e">>,
     <<"t","o","n","n","o"," ","s","g","o","c","c","i","o","l","a","t","o">>
  >>],
  [categoria |-> "affettati", keywords |-> <<
     <<"b","r","e","s","a","o","l","a">>,
     <<"p","r","o","s","c","i","u","t","t","o">>,
     <<"s","a","l","m","o","n","e"," ","a","f","f","u","m","i","c","a","t","o">>
  >>]
>>

\* identifica_categoria_proteica with the loops exchanged: the ingredients in
\* the outer loop, the categories in the inner one
identifica_per_ingrediente(ingredienti_list) ==
  LET parti == split(ingredienti_list, "|")
      lista == [i \in 1..Len(parti) |-> lower(strip(parti[i]))]
      N == Len(CATEGORIE_PROTEINE)
      trovata(i, k) == \E j \in 1..Len(CATEGORIE_PROTEINE[k].keywords) :
                         Contains(lista[i], CATEGORIE_PROTEINE[k].keywords[j])
      coppie == {<<i, k>> \in (1..Len(lista)) \X (1..N) : trovata(i, k)}
  IN IF coppie = {} THEN None
     ELSE CATEGORIE_PROTEINE[
            (CHOOSE c \in coppie : \A d \in coppie :
               c[1] < d[1] \/ (c[1] = d[1] /\ c[2] <= d[2]))[2]].categoria

\* lines 156-176, for a text of ingredients separated by "|"
identifica_categoria_proteica(ingredienti_list) ==
  LET parti == split(ingredienti_list, "|")
      lista == [i \in 1..Len(parti) |-> lower(strip(parti[i]))]
      trovata(k) == \E i \in 1..Len(lista), j \in 1..Len(CATEGORIE_PROTEINE[k].keywords) :
                      Contains(lista[i], CATEGORIE_PROTEINE[k].keywords[j])
      N == Len(CATEGORIE_PROTEINE)
  IN IF \E k \in 1..N : trovata(k)
     THEN CATEGORIE_PROTEINE[CHOOSE k \in 1..N : trovata(k) /\ \A h \in 1..(k - 1) : ~trovata(h)].categoria
     ELSE None

\* lines 190-193: the category a meal is tallied under
categoria_del_pasto(piatto) ==
  IF "categoria_proteica" \in DOMAIN piatto THEN piatto.categoria_proteica
  ELSE identifica_categoria_proteica(
         IF "ingredienti" \in DOMAIN piatto THEN piatto.ingredienti ELSE <<>>)

\* lines 187-196: the tally after the first n meals
RECURSIVE conta_pasti(_, _)
conta_pasti(piatti, n) ==
  IF n = 0
  THEN [cat \in {FREQUENZE_SETTIMANALI[k].categoria : k \in 1..Len(FREQUENZE_SETTIMANALI)} |-> 0]
  ELSE Con(conta_pasti(piatti, n - 1), LAMBDA prima :
         Con(categoria_del_pasto(piatti[n][1]), LAMBDA cat :
           IF cat \in DOMAIN prima THEN [prima EXCEPT ![cat] = @ + 1] ELSE prima))

\* lines 202-209: the violations of the first k categories, in order
RECURSIVE errori_fino(_, _)
errori_fino(conteggi, k) ==
  IF k = 0 THEN <<>>
  ELSE LET freq == FREQUENZE_SETTIMANALI[k]
           count == conteggi[freq.categoria]
           err(limite, soglia) == [categoria |-> freq.categoria, count |-> count,
                                   limite |-> limite, soglia |-> soglia]
       IN errori_fino(conteggi, k - 1)
            \o (IF count < freq.min THEN <<err("minimo", freq.min)>> ELSE <<>>)
            \o (IF count > freq.max THEN <<err("massimo", freq.max)>> ELSE <<>>)

\* verifica_frequenze_settimanali that looks at the maxima only
verifica_solo_massimi(piatti_settimana) ==
  IF \E i \in 1..Len(piatti_settimana) : piatti_settimana[i] = <<>>
  THEN [eccezione |-> "TypeError", conteggi |-> EmptyMap, valido |-> FALSE, errori |-> <<>>]
  ELSE
  Con(conta_pasti(piatti_settimana, Len(piatti_settimana)), LAMBDA conteggi :
    Con(SelectSeq(errori_fino(conteggi, Len(FREQUENZE_SETTIMANALI)),
                  LAMBDA e : e.limite = "massimo"), LAMBDA errori :
      [eccezione |-> None, conteggi |-> conteggi, valido |-> errori = <<>>,
       errori |-> errori]))

\* lines 179-211.  A meal is <<dish>>, or <<>> for None: the membership test
\* of line 190 raises TypeError on None
verifica_frequenze_settimanali(piatti_settimana) ==
  IF \E i \in 1..Len(piatti_settimana) : piatti_settimana[i] = <<>>
  THEN [eccezione |-> "TypeError", conteggi |-> EmptyMap, valido |-> FALSE, errori |-> <<>>]
  ELSE Con(conta_pasti(piatti_settimana, Len(piatti_settimana)), LAMBDA conteggi :
         LET errori == errori_fino(conteggi, Len(FREQUENZE_SETTIMANALI))
             valido == \A k \in 1..Len(FREQUENZE_SETTIMANALI) :
                         /\ ~(conteggi[FREQUENZE_SETTIMANALI[k].categoria] < FREQUENZE_SETTIMANALI[k].min)
                         /\ ~(conteggi[FREQUENZE_SETTIMANALI[k].categoria] > FREQUENZE_SETTIMANALI[k].max)
         IN [eccezione |-> None, conteggi |-> conteggi, valido |-> valido, errori |-> errori])

(***************************************************************************)
(* The data source CSV_FILE.  The file is a header and lines of fields; a   *)
(* file that does not exist is <<>>.                                        *)
(***************************************************************************)
FIELDNAMES == <<"id", "data", "nome", "descrizione", "categoria", "prezzo",
                "attivo", "ricetta", "ingredienti", "quantita">>

\* csv.DictReader: one dict per line, the blank lines (no field at all)
\* skipped; a missing field reads as None, the fields beyond the header are
\* kept under the key None
DictReader(file) ==
  LET nomi == file.fieldnames
      righe == SelectSeq(file.righe, LAMBDA r : r # <<>>)
      pos(k) == CHOOSE j \in 1..Len(nomi) : nomi[j] = k
      dict(r) == [k \in {nomi[j] : j \in 1..Len(nomi)}
                        \cup (IF Len(r) > Len(nomi) THEN {"None"} ELSE {}) |->
                    IF k = "None" THEN r[Len(nomi) + 1]
                    ELSE IF pos(k) <= Len(r) THEN r[pos(k)] ELSE NoneText]
  IN [i \in 1..Len(righe) |-> dict(righe[i])]

upper(s) ==
  [i \in 1..Len(s) |->
     IF \E j \in 1..Len(Minuscole) : Minuscole[j] = s[i]
     THEN Maiuscole[CHOOSE j \in 1..Len(Minuscole) : Minuscole[j] = s[i]]
     ELSE s[i]]

(***************************************************************************)
(* menu_generator.py                                                       *)
(***************************************************************************)
\* lines 31-52: the dishes loaded from the first n rows; the first row whose
\* attivo or ingredienti is None raises, and line 61 ends the loading there.
\* A dish keeps the fields the generator reads: id, nome, ingredienti and
\* categoria_proteica.
RECURSIVE carica_piatti(_, _)
carica_piatti(righe, n) ==
  IF n = 0 THEN [piatti |-> <<>>, errore |-> FALSE]
  ELSE Con(carica_piatti(righe, n - 1), LAMBDA prima :
       Con(righe[n], LAMBDA row :
          IF prima.errore THEN prima
          ELSE IF row.attivo = NoneText THEN [prima EXCEPT !.errore = TRUE]
          ELSE IF upper(row.attivo) # <<"S","I">> THEN prima
          ELSE IF row.ingredienti = NoneText THEN [prima EXCEPT !.errore = TRUE]
          ELSE [prima EXCEPT !.piatti =
                  Append(@, [id |-> row.id, nome |-> row.nome,
                             ingredienti |-> row.ingredienti,
                             categoria_proteica |->
                               identifica_categoria_proteica(row.ingredienti)])]))

\* lines 19-23 and 25-62
MenuGenerator(file) ==
  Con(IF file = <<>> THEN <<>>
      ELSE Con(DictReader(file[1]), LAMBDA righe : carica_piatti(righe, Len(righe)).piatti),
      LAMBDA piatti :
    [piatti_disponibili |-> piatti,
     piatti_per_categoria |->
       [cat \in {piatti[i].categoria_proteica : i \in 1..Len(piatti)} \ {None} |->
          SelectSeq(piatti, LAMBDA p : p.categoria_proteica = cat)]])

\* random.choice(lista) when the random source gives tiro
choice(lista, tiro) == lista[(tiro % Len(lista)) + 1]

\* lines 166-170; the result is <<dish>>, or <<>> for None
seleziona_piatto_casuale(g, tiro) ==
  IF g.piatti_disponibili = <<>> THEN <<>>
  ELSE <<choice(g.piatti_disponibili, tiro)>>

\* _seleziona_piatto_per_categoria that always takes the fallback
seleziona_senza_categoria(g, categoria, tiro) == seleziona_piatto_casuale(g, tiro)

\* lines 172-178
seleziona_piatto_per_categoria(g, categoria, tiro) ==
  IF categoria \in DOMAIN g.piatti_per_categoria
  THEN <<choice(g.piatti_per_categoria[categoria], tiro)>>
  ELSE seleziona_piatto_casuale(g, tiro)

\* a piano with a third portion of legumi in place of formaggi_stagionati
PIANO_tre_legumi == <<"legumi", "legumi", "legumi", "pesce_bianco", "pesce_bianco",
                      "carne_bianca", "carne_bianca", "carne_bianca", "uova", "uova",
                      "formaggi_freschi", "formaggi_freschi", "carne_rossa",
                      "pesce_grasso">>

\* lines 120-144
PIANO == <<"legumi", "legumi", "pesce_bianco", "pesce_bianco",
           "carne_bianca", "carne_bianca", "carne_bianca", "uova", "uova",
           "formaggi_freschi", "formaggi_freschi", "carne_rossa",
           "pesce_grasso", "formaggi_stagionati">>

\* lines 73-90 and 108-115: the dict giorno -> {pranzo, cena} (the days by
\* their position in giorni) made of 14 meals in the order giorno by giorno,
\* pranzo then cena
menu_di(pasti) == [g \in 1..7 |-> [pranzo |-> pasti[2 * g - 1], cena |-> pasti[2 * g]]]

\* what a generation function returns or raises
Ritorno(funzione, piatti_usati) ==
  Con(piatti_usati, LAMBDA pasti :
    Con(verifica_frequenze_settimanali(pasti), LAMBDA v :
      [funzione |-> funzione, eccezione |-> v.eccezione,
       menu_settimana |-> IF v.eccezione = None THEN menu_di(pasti) ELSE <<>>,
       conteggi |-> v.conteggi, valido |-> v.valido]))

\* lines 103-164.  mescola_slot and mescola_piano are the permutations the two
\* shuffles apply, tiri the random source of the 14 choices: slot
\* mescola_slot[i] gets a dish of category PIANO[mescola_piano[i]]
genera_settimana_intelligente(g, mescola_slot, mescola_piano, tiri) ==
  LET posto(s) == CHOOSE i \in 1..14 : mescola_slot[i] = s
      pasti == [s \in 1..14 |->
                  seleziona_piatto_per_categoria(g, PIANO[mescola_piano[posto(s)]],
                                                 tiri[posto(s)])]
  IN Ritorno("intelligente", pasti)

\* lines 79-90: the 14 dishes one attempt samples
campiona(g, tiri) == [s \in 1..14 |-> seleziona_piatto_casuale(g, tiri[s])]

\* one iteration of the loop that never leaves it before the last one
tentativo_senza_uscita(g, c, tiri, t) ==
  Con(Ritorno("bilanciata", campiona(g, tiri)), LAMBDA r :
    LET fatti == Append(c.fatti, t)
    IN IF r.eccezione # None
       THEN [corsa |-> [c EXCEPT !.fatti = fatti, !.finita = TRUE], ritorno |-> <<r>>]
       ELSE IF Len(fatti) = c.tentativi_max
       THEN [corsa |-> [c EXCEPT !.fatti = fatti, !.finita = TRUE],
             ritorno |-> <<[r EXCEPT !.valido = FALSE]>>]
       ELSE [corsa |-> [c EXCEPT !.fatti = fatti], ritorno |-> <<>>])

\* lines 75-101: one iteration of the loop of genera_settimana_bilanciata in
\* the call c, with random source tiri (recorded as t): the call returns at
\* a valid attempt, or after the last one with valido False; an exception
\* of the verification leaves the call
tentativo_bilanciata(g, c, tiri, t) ==
  Con(Ritorno("bilanciata", campiona(g, tiri)), LAMBDA r :
    LET fatti == Append(c.fatti, t)
    IN IF r.eccezione # None \/ r.valido
       THEN [corsa |-> [c EXCEPT !.fatti = fatti, !.finita = TRUE], ritorno |-> <<r>>]
       ELSE IF Len(fatti) = c.tentativi_max
       THEN [corsa |-> [c EXCEPT !.fatti = fatti, !.finita = TRUE],
             ritorno |-> <<[r EXCEPT !.valido = FALSE]>>]
       ELSE [corsa |-> [c EXCEPT !.fatti = fatti], ritorno |-> <<>>])

(***************************************************************************)
(* src/app.py: dates, weeks and the menu of a date                         *)
(***************************************************************************)
\* the characters in the order of their code points ("-" "." "/" precede
\* the digits; the accented letters follow "|")
Codice(c) ==
  LET ordine == <<" ", "-", ".", "/">> \o Cifre \o SubSeq(Maiuscole, 1, 26)
                  \o SubSeq(Minuscole, 1, 26)
                  \o <<"|", "Agrave", "Egrave", "agrave", "egrave", "eacute",
                       "igrave", "ograve", "ugrave">>
  IN CHOOSE i \in 1..Len(ordine) : ordine[i] = c

\* a < b for two str
minore(a, b) ==
  \E k \in 1..(Len(a) + 1) :
    /\ k <= Len(b)
    /\ \A j \in 1..(k - 1) : a[j] = b[j]
    /\ k = Len(a) + 1 \/ Codice(a[k]) < Codice(b[k])

\* sorted(S) for a set of str
RECURSIVE sorted(_)
sorted(S) ==
  IF S = {} THEN <<>>
  ELSE LET primo == CHOOSE x \in S : \A y \in S \ {x} : minore(x, y)
       IN <<primo>> \o sorted(S \ {primo})

\* int(t) for the texts of digits with white space around, as <<n>>; <<>>
\* when int raises (None included).  Signs and underscores are not modelled.
int(t) ==
  IF t # NoneText /\ strip(t) # <<>> /\ SpanDigits(strip(t), 1) = Len(strip(t))
  THEN <<DigitsToNat(strip(t))>> ELSE <<>>

\* lines 74-95
converti_data_italiana(data_str) ==
  IF data_str = NoneText THEN NoneText     \* None.strip() raises: line 95
  ELSE LET s == strip(data_str)
           parti == split(s, "/")
           zfill(t) == IF Len(t) = 0 THEN <<"0","0">>
                       ELSE IF Len(t) = 1 THEN <<"0">> \o t ELSE t
       IN IF Contains(s, <<"/">>) /\ Len(parti) = 3
          THEN parti[3] \o <<"-">> \o zfill(parti[2]) \o <<"-">> \o zfill(parti[1])
          ELSE s

\* datetime(anno, mese, giorno).isocalendar(): <<ISO year, ISO week>>, or <<>>
\* when datetime raises ValueError
isocalendar(anno, mese, giorno) ==
  LET bisestile(y) == (y % 4 = 0 /\ y % 100 # 0) \/ y % 400 = 0
      giorni_mese(y, m) == IF m = 2 THEN (IF bisestile(y) THEN 29 ELSE 28)
                           ELSE IF m \in {4, 6, 9, 11} THEN 30 ELSE 31
      RECURSIVE prima_del_mese(_, _)
      prima_del_mese(y, m) == IF m = 1 THEN 0
                              ELSE prima_del_mese(y, m - 1) + giorni_mese(y, m - 1)
      \* the day of the week of 1 January, 1 = Monday
      capodanno(y) == ((365 * (y - 1) + (y - 1) \div 4 - (y - 1) \div 100
                          + (y - 1) \div 400) % 7) + 1
      settimane(y) == IF capodanno(y) = 4 \/ (bisestile(y) /\ capodanno(y) = 3)
                      THEN 53 ELSE 52
      del_anno == prima_del_mese(anno, mese) + giorno
      feriale == ((capodanno(anno) + del_anno - 2) % 7) + 1
      w == (del_anno - feriale + 10) \div 7
  IN IF ~(anno \in 1..9999 /\ mese \in 1..12 /\ giorno \in 1..giorni_mese(anno, mese))
     THEN <<>>
     ELSE IF w < 1 THEN <<anno - 1, settimane(anno - 1)>>
     ELSE IF w > settimane(anno) THEN <<anno + 1, 1>>
     ELSE <<anno, w>>

\* lines 39-68
calcola_settimana(data_str) ==
  LET data_iso == converti_data_italiana(data_str)
      parts == split(data_iso, "-")
  IN IF data_iso = NoneText \/ ~Contains(data_iso, <<"-">>) \/ Len(parts) < 3 THEN 1
     ELSE IF int(parts[1]) = <<>> \/ int(parts[2]) = <<>> \/ int(parts[3]) = <<>> THEN 1
     ELSE IF isocalendar(int(parts[1])[1], int(parts[2])[1], int(parts[3])[1]) = <<>> THEN 1
     ELSE isocalendar(int(parts[1])[1], int(parts[2])[1], int(parts[3])[1])[2]

\* lines 210-241: the dish a row gives for data_richiesta, as <<piatto>>;
\* <<>> when the row is of another date, is not active, or raises and is
\* skipped by line 239.  float(prezzo) is modelled on the texts digits[.digits].
\* A dish keeps id, nome, settimana and, when asked for, the lists ingredienti
\* and quantita (<<>> for a key the dish does not have).
riga_del_menu(row, data_richiesta, include_ingredienti) ==
  LET data_piatto == converti_data_italiana(row.data)
      prezzo == strip(row.prezzo)
      interi == SpanDigits(prezzo, 1)
      punto == IF interi + 1 <= Len(prezzo) /\ prezzo[interi + 1] = "." THEN 1 ELSE 0
      decimali == IF punto = 1 THEN SpanDigits(prezzo, interi + 2) ELSE 0
      lista(t) == IF ~include_ingredienti \/ strip(t) = <<>> THEN <<>>
                  ELSE [i \in 1..Len(split(t, "|")) |-> strip(split(t, "|")[i])]
  IN IF data_piatto # data_richiesta \/ row.attivo = NoneText THEN <<>>
     ELSE IF upper(strip(row.attivo)) # <<"S","I">> THEN <<>>
     ELSE IF \/ int(row.id) = <<>>
             \/ NoneText \in {row.nome, row.descrizione, row.categoria, row.prezzo, row.ricetta}
             \/ interi + decimali = 0 \/ interi + punto + decimali # Len(prezzo)
          THEN <<>>
     ELSE IF include_ingredienti /\ NoneText \in {row.ingredienti, row.quantita} THEN <<>>
     ELSE <<[id |-> int(row.id)[1], nome |-> strip(row.nome),
             settimana |-> calcola_settimana(data_piatto),
             ingredienti |-> lista(row.ingredienti), quantita |-> lista(row.quantita)]>>

\* lines 328-345, as <<dates>>; <<>> when the file is missing or sorted()
\* raises on a None among the texts (the function then returns [])
get_available_dates(file) ==
  IF file = <<>> THEN <<>>
  ELSE LET righe == DictReader(file[1])
           date == {converti_data_italiana(righe[i].data) : i \in 1..Len(righe)}
       IN IF NoneText \in date /\ date # {NoneText} THEN <<>>
          ELSE <<sorted(date)>>

\* load_menu_from_csv that takes the rows of every date
load_menu_ogni_data(file, data_richiesta, include_ingredienti) ==
  IF get_available_dates(file) = <<>> THEN <<>>
  ELSE Con(DictReader(file[1]), LAMBDA righe :
         LET RECURSIVE piatti(_)
             piatti(n) == IF n = 0 THEN <<>>
                          ELSE piatti(n - 1)
                                 \o riga_del_menu(righe[n], converti_data_italiana(righe[n].data),
                                                  include_ingredienti)
         IN piatti(Len(righe)))

\* lines 183-255: the dishes of data_richiesta in the order of the file; no
\* dish when the file is missing or the sorting of line 245 raises
load_menu_from_csv(file, data_richiesta, include_ingredienti) ==
  IF get_available_dates(file) = <<>> THEN <<>>
  ELSE Con(DictReader(file[1]), LAMBDA righe :
         LET RECURSIVE piatti(_)
             piatti(n) == IF n = 0 THEN <<>>
                          ELSE piatti(n - 1) \o riga_del_menu(righe[n], data_richiesta,
                                                              include_ingredienti)
         IN piatti(Len(righe)))

\* lines 304-313
ORDINE_CATEGORIE == <<"Frutta e Verdura", "Macelleria e Pescheria", "Latticini e Uova",
                      "Dispensa e Cereali", "Bevande", "Dolci e Dessert", "Surgelati",
                      "Altri">>

\* lines 264-279: the pairs (ingrediente, quantita) of the dishes of the
\* selected dates, in the order the loops visit them
voci_della_spesa(file, date_selezionate) ==
  LET del_piatto(p) ==
        IF p.ingredienti = <<>> \/ p.quantita = <<>> THEN <<>>
        ELSE [idx \in 1..Len(p.ingredienti) |->
                <<p.ingredienti[idx],
                  IF idx <= Len(p.quantita) THEN p.quantita[idx] ELSE <<"q",".","b",".">> >>]
      RECURSIVE dei_piatti(_, _)
      dei_piatti(piatti, n) == IF n = 0 THEN <<>>
                               ELSE dei_piatti(piatti, n - 1) \o del_piatto(piatti[n])
      RECURSIVE delle_date(_)
      delle_date(n) ==
        IF n = 0 THEN <<>>
        ELSE Con(load_menu_from_csv(file, date_selezionate[n], TRUE), LAMBDA menu :
               delle_date(n - 1) \o dei_piatti(menu, Len(menu)))
  IN delle_date(Len(date_selezionate))

\* lines 270-279: lista_spesa after the first n pairs, as the list of its
\* items in the order of insertion
RECURSIVE aggrega(_, _, _, _)
aggrega(voci, n, num_persone, su) ==
  IF n = 0 THEN <<>>
  ELSE Con(aggrega(voci, n - 1, num_persone, su), LAMBDA prima :
       Con(moltiplica_quantita(voci[n][2], num_persone, su), LAMBDA quantita_moltiplicata :
         LET ingrediente == voci[n][1]
         IN IF \E i \in 1..Len(prima) : prima[i].ingrediente = ingrediente
            THEN [i \in 1..Len(prima) |->
                    IF prima[i].ingrediente = ingrediente
                    THEN [prima[i] EXCEPT !.quantita =
                            somma_quantita(@, quantita_moltiplicata, su)]
                    ELSE prima[i]]
            ELSE Append(prima, [ingrediente |-> ingrediente,
                                quantita |-> quantita_moltiplicata])))

\* lines 287-296: the classifier and the categories after the first n items
\* of lista_spesa; risposte gives the answer of the external service for a
\* name, when it is asked
RECURSIVE classifica_lista(_, _, _, _)
classifica_lista(c, lista_spesa, n, risposte) ==
  IF n = 0 THEN [c |-> c, salvata |-> FALSE, categorie |-> EmptyMap]
  ELSE Con(classifica_lista(c, lista_spesa, n - 1, risposte), LAMBDA prima :
       Con(lista_spesa[n].ingrediente, LAMBDA nome :
       Con(classifica(prima.c, nome,
                      IF nome \in DOMAIN risposte THEN risposte[nome] ELSE None), LAMBDA r :
         [c |-> r.c, salvata |-> prima.salvata \/ r.salvata,
          categorie |->
            Put(prima.categorie, r.categoria,
                (IF r.categoria \in DOMAIN prima.categorie
                 THEN prima.categorie[r.categoria] ELSE <<>>) \o <<lista_spesa[n]>>)])))

\* calcola_lista_spesa that leaves the ingredients of a category in the order
\* of their insertion
calcola_lista_non_ordinata(file, c, date_selezionate, num_persone, su, risposte) ==
  Con(voci_della_spesa(file, date_selezionate), LAMBDA voci :
  Con(aggrega(voci, Len(voci), num_persone, su), LAMBDA lista_spesa :
  Con(classifica_lista(c, lista_spesa, Len(lista_spesa), risposte), LAMBDA k :
    LET presenti == SelectSeq(ORDINE_CATEGORIE, LAMBDA cat : cat \in DOMAIN k.categorie)
    IN [risultato |-> [i \in 1..Len(presenti) |->
                         [categoria |-> presenti[i], ingredienti |-> k.categorie[presenti[i]]]],
        c |-> k.c, salvata |-> k.salvata])))

\* lines 257-326.  c is the instance get_classificatore returns.  The result:
\* the returned list, the instance after the call, whether the cache file
\* was written
calcola_lista_spesa(file, c, date_selezionate, num_persone, su, risposte) ==
  Con(voci_della_spesa(file, date_selezionate), LAMBDA voci :
  Con(aggrega(voci, Len(voci), num_persone, su), LAMBDA lista_spesa :
  Con(classifica_lista(c, lista_spesa, Len(lista_spesa), risposte), LAMBDA k :
    LET ordinati(cat) ==
          Con(sorted({k.categorie[cat][i].ingrediente : i \in 1..Len(k.categorie[cat])}),
              LAMBDA nomi :
            [i \in 1..Len(nomi) |->
               k.categorie[cat][CHOOSE j \in 1..Len(k.categorie[cat]) :
                                  k.categorie[cat][j].ingrediente = nomi[i]]])
        presenti == SelectSeq(ORDINE_CATEGORIE, LAMBDA cat : cat \in DOMAIN k.categorie)
    IN [risultato |-> [i \in 1..Len(presenti) |->
                         [categoria |-> presenti[i], ingredienti |-> ordinati(presenti[i])]],
        c |-> k.c, salvata |-> k.salvata])))

\* lines 460-496, for the session of username (None: nobody logged in).
\* The groups are keyed by the pair (anno, settimana) that the text
\* f"{anno}-W{settimana:02d}" is made of.
get_settimane(file, username) ==
  LET disponibili == get_available_dates(file)
      date_disponibili == IF disponibili = <<>> THEN <<>> ELSE disponibili[1]
      anno(data) == IF data = NoneText THEN <<>> ELSE int(split(data, "-")[1])
      chiave(data) == <<anno(data)[1], calcola_settimana(data)>>
      chiavi == {chiave(date_disponibili[i]) : i \in 1..Len(date_disponibili)}
      RECURSIVE ordinate(_)
      ordinate(K) ==
        IF K = {} THEN <<>>
        ELSE LET k == CHOOSE x \in K : \A y \in K :
                        x[1] < y[1] \/ (x[1] = y[1] /\ x[2] <= y[2])
             IN <<k>> \o ordinate(K \ {k})
  IN IF username = None THEN [status |-> 401]
     ELSE IF username # "admin" THEN [status |-> 403]
     ELSE IF \E i \in 1..Len(date_disponibili) : anno(date_disponibili[i]) = <<>>
     THEN [status |-> 500]
     ELSE [status |-> 200,
           settimane |->
             [i \in 1..Cardinality(chiavi) |->
                [anno |-> ordinate(chiavi)[i][1], settimana |-> ordinate(chiavi)[i][2],
                 date |-> SelectSeq(date_disponibili,
                                    LAMBDA d : chiave(d) = ordinate(chiavi)[i])]]]

\* lines 498-531
get_date_da_settimana(file, username, anno, settimana) ==
  LET disponibili == get_available_dates(file)
      date_disponibili == IF disponibili = <<>> THEN <<>> ELSE disponibili[1]
      data_anno(data) == IF data = NoneText THEN <<>> ELSE int(split(data, "-")[1])
  IN IF username = None THEN [status |-> 401]
     ELSE IF username # "admin" THEN [status |-> 403]
     ELSE IF \E i \in 1..Len(date_disponibili) : data_anno(date_disponibili[i]) = <<>>
     THEN [status |-> 500]
     ELSE [status |-> 200, anno |-> anno, settimana |-> settimana,
           date |-> sorted({date_disponibili[i] : i \in
                      {j \in 1..Len(date_disponibili) :
                         /\ data_anno(date_disponibili[j])[1] = anno
                         /\ calcola_settimana(date_disponibili[j]) = settimana}})]

(***************************************************************************)
(* app.py, salva_menu_settimanale: the commit of a weekly menu             *)
(***************************************************************************)
\* lines 821-826
converti_data_iso_italiana(data_iso) ==
  LET parti == split(data_iso, "-")
  IN IF Contains(data_iso, <<"-">>) /\ Len(parti) = 3
     THEN parti[3] \o <<"/">> \o parti[2] \o <<"/">> \o parti[1]
     ELSE data_iso

\* csv.DictWriter: the line written for a row dict, one field per column;
\* None is written as the empty text
riga_scritta(fieldnames, row) ==
  [k \in 1..Len(fieldnames) |->
     IF row[fieldnames[k]] = NoneText THEN <<>> ELSE row[fieldnames[k]]]

\* a numbering that gives every new row the id after the greatest
stesso_id(max_id, j) == max_id + 1

\* lines 829-830, 842-846 and 851-855: the id of the j-th new row
prossimo_id(max_id, j) == max_id + j

\* lines 794-875, for the session of username and the menu of the request.
\* A day of the menu is [data, pranzo, cena]; the id of a dish of the menu is
\* [tipo, valore]: the JSON number valore (tipo "int") or the JSON string of
\* its digits (tipo "str"), which is not a key of piatti_db.  The result is
\* the status of the response, the file as the request leaves it and the
\* number of rows the response reports.
salva_menu_settimanale(file, username, menu) ==
  LET errore(s) == [status |-> s, file |-> file, piatti_aggiunti |-> 0]
  IN IF username # "admin" THEN errore(401)
     ELSE IF menu = <<>> THEN errore(400)
     ELSE IF file = NoFile THEN errore(500)
     ELSE
       LET fieldnames == file[1].fieldnames
           righe_esistenti == DictReader(file[1])
           ids == [i \in 1..Len(righe_esistenti) |-> int(righe_esistenti[i].id)]
       IN IF righe_esistenti = <<>> \/ \E i \in 1..Len(ids) : ids[i] = <<>>
          THEN errore(500)            \* int() or max() raises: nothing is written
          ELSE
            LET in_db(id) == id.tipo = "int" /\ \E i \in 1..Len(ids) : ids[i][1] = id.valore
                \* the dict keeps the last row of an id
                piatti_db(n) ==
                  righe_esistenti[CHOOSE i \in 1..Len(ids) :
                                    /\ ids[i][1] = n
                                    /\ \A j \in (i + 1)..Len(ids) : ids[j][1] # n]
                max_id == CHOOSE n \in {ids[i][1] : i \in 1..Len(ids)} :
                            \A i \in 1..Len(ids) : ids[i][1] <= n
                richiesti ==
                  [k \in 1..(2 * Len(menu)) |->
                     LET giorno_data == menu[(k + 1) \div 2]
                     IN [id |-> IF k % 2 = 1 THEN giorno_data.pranzo.id
                                ELSE giorno_data.cena.id,
                         data |-> giorno_data.data]]
                trovati == SelectSeq(richiesti, LAMBDA q : in_db(q.id))
                nuove_righe ==
                  [j \in 1..Len(trovati) |->
                     [piatti_db(trovati[j].id.valore) EXCEPT
                        !.id = IntChars(prossimo_id(max_id, j)),
                        !.data = converti_data_iso_italiana(trovati[j].data)]]
                tutte == righe_esistenti \o nuove_righe
                \* a row with fields beyond the header makes writerows raise:
                \* the file, opened for writing, keeps the rows before it
                rifiutate == {i \in 1..Len(tutte) : "None" \in DOMAIN tutte[i]}
                scritte == IF rifiutate = {} THEN tutte
                           ELSE SubSeq(tutte, 1,
                                  (CHOOSE i \in rifiutate : \A j \in rifiutate : i <= j) - 1)
            IN [status |-> IF rifiutate = {} THEN 200 ELSE 500,
                file |-> <<[fieldnames |-> fieldnames,
                            righe |-> [i \in 1..Len(scritte) |->
                                         riga_scritta(fieldnames, scritte[i])]]>>,
                piatti_aggiunti |-> IF rifiutate = {} THEN Len(nuove_righe) ELSE 0]

(***************************************************************************)
(* csv_validator.py                                                        *)
(***************************************************************************)
\* float(t) for the texts of a decimal number with an optional sign and white
\* space around, as <<negative>>; <<>> when float raises ValueError.  The
\* exponent, inf and nan are not modelled.
float(t) ==
  LET s == strip(t)
      segno == s # <<>> /\ s[1] \in {"+", "-"}
      c == IF segno THEN Tail(s) ELSE s
      interi == SpanDigits(c, 1)
      punto == interi < Len(c) /\ c[interi + 1] = "."
      decimi == IF punto THEN SpanDigits(c, interi + 2) ELSE 0
  IN IF interi + decimi > 0 /\ interi + (IF punto THEN 1 ELSE 0) + decimi = Len(c)
     THEN <<segno /\ s[1] = "-" /\ \E i \in 1..Len(c) : IsDigit(c[i]) /\ c[i] # "0">>
     ELSE <<>>

\* lines 65-121, for a row whose dict has the required columns: the errors
\* and the warnings of the row, each named by the fixed part of its message.
\* A required field that is None, or a None ingredienti or quantita field that
\* is read, raises (TypeError of int and float, AttributeError of strip).
esamina_riga(row) ==
  LET ha(k) == k \in DOMAIN row
      nonvuoto(k) == strip(row[k]) # <<>>
      solleva ==
        \/ \E k \in {"id", "data", "nome", "categoria", "prezzo", "attivo"} : row[k] = NoneText
        \/ ha("ingredienti") /\ row.ingredienti = NoneText
        \/ ha("ingredienti") /\ nonvuoto("ingredienti") /\ ha("quantita") /\ row.quantita = NoneText
      id_val == int(row.id)
      data == strip(row.data)
      parti(sep) == Len(split(data, sep))
      prezzo == float(row.prezzo)
      attivo == upper(strip(row.attivo))
      \* line 97
      categorie_valide ==
        {<<"P","r","i","m","i">>, <<"S","e","c","o","n","d","i">>,
         <<"C","o","n","t","o","r","n","i">>, <<"D","o","l","c","i">>,
         <<"A","n","t","i","p","a","s","t","i">>,
         <<"V","e","g","e","t","a","r","i","a","n","i">>,
         <<"V","e","g","a","n","i">>, <<"Z","u","p","p","e">>}
  IN IF solleva THEN [solleva |-> TRUE, errori |-> <<>>, warnings |-> <<>>, dati |-> row]
     ELSE
      [solleva |-> FALSE,
       errori |->
            (IF id_val = <<>> THEN <<"ID non valido">>
             ELSE IF id_val[1] <= 0 THEN <<"ID deve essere > 0">> ELSE <<>>)
         \o (IF data = <<>> THEN <<"Data mancante">>
             ELSE IF Contains(data, <<"/">>)
                  THEN (IF parti("/") # 3 THEN <<"Data non valida">> ELSE <<>>)
             ELSE IF Contains(data, <<"-">>)
                  THEN (IF parti("-") # 3 THEN <<"Data non valida">> ELSE <<>>)
             ELSE <<"Data non valida">>)
         \o (IF ~nonvuoto("nome") THEN <<"Nome piatto mancante">> ELSE <<>>)
         \o (IF prezzo = <<>> THEN <<"Prezzo non valido">>
             ELSE IF prezzo[1] THEN <<"Prezzo negativo">> ELSE <<>>)
         \o (IF attivo \notin {<<"S","I">>, <<"N","O">>}
             THEN <<"Campo attivo deve essere SI o NO">> ELSE <<>>),
       warnings |->
            (IF strip(row.categoria) \notin categorie_valide
             THEN <<"Categoria non standard">> ELSE <<>>)
         \o (IF /\ ha("ingredienti") /\ nonvuoto("ingredienti")
                /\ ha("quantita") /\ nonvuoto("quantita")
                /\ Len(split(row.ingredienti, "|")) # Len(split(row.quantita, "|"))
             THEN <<"Numero ingredienti diverso da quantita">> ELSE <<>>),
       \* line 113
       dati |-> IF attivo \notin {<<"S","I">>, <<"N","O">>}
                THEN [row EXCEPT !.attivo = <<"S","I">>] ELSE row]

\* lines 11-167, for the content of csv_file (<<>>: no such file) and the name
\* of the backup, which is the second of the clock.  The result is what the
\* function returns, the content copied to the backup (<<>>: no backup) and
\* the content the file .corretto is left with (<<>>: the file is not opened).
valida_e_correggi_csv(file, backup_file) ==
  LET risultato(success, error, valide, scartate, warnings, backup, file_corretto) ==
        [success |-> success, error |-> error, errori_trovati |-> Len(scartate),
         righe_valide |-> valide, righe_scartate |-> scartate, warnings |-> warnings,
         backup |-> backup, file_corretto |-> file_corretto]
      errore(e) == risultato(FALSE, e, 0, <<>>, <<>>, None, None)
  IN IF file = NoFile
     THEN [risultato |-> errore("File non trovato"), backup |-> <<>>, corretto |-> <<>>]
     ELSE
      Con(file[1].fieldnames, LAMBDA fieldnames :
      Con(DictReader(file[1]), LAMBDA righe :
      Con([i \in 1..Len(righe) |-> righe[i]], LAMBDA lette :
        IF fieldnames = <<>>
        THEN [risultato |-> errore("File CSV vuoto o senza intestazioni"),
              backup |-> file, corretto |-> <<>>]
        ELSE IF \E col \in {"id", "data", "nome", "descrizione", "categoria", "prezzo", "attivo"} :
                  \A j \in 1..Len(fieldnames) : fieldnames[j] # col
        THEN [risultato |-> errore("Colonne mancanti"), backup |-> file, corretto |-> <<>>]
        ELSE
         Con([i \in 1..Len(lette) |-> esamina_riga(lette[i])], LAMBDA esami :
           IF \E i \in 1..Len(esami) : esami[i].solleva
           THEN [risultato |-> errore("Errore durante la validazione"),
                 backup |-> file, corretto |-> <<>>]
           ELSE
            LET N == Len(esami)
                \* riga_num: the header is line 1
                indici_scartati == SelectSeq([i \in 1..N |-> i], LAMBDA i : esami[i].errori # <<>>)
                indici_validi == SelectSeq([i \in 1..N |-> i], LAMBDA i : esami[i].errori = <<>>)
                righe_scartate == [k \in 1..Len(indici_scartati) |->
                                     [riga |-> indici_scartati[k] + 1,
                                      errori |-> esami[indici_scartati[k]].errori,
                                      dati |-> esami[indici_scartati[k]].dati]]
                righe_valide == [k \in 1..Len(indici_validi) |-> lette[indici_validi[k]]]
                warnings == [k \in 1..N |-> [riga |-> k + 1, warnings |-> esami[k].warnings]]
                \* a row with fields beyond the header makes writerows raise:
                \* the file, opened for writing, keeps the rows before it
                rifiutate == {k \in 1..Len(righe_valide) : "None" \in DOMAIN righe_valide[k]}
                scritte == IF rifiutate = {} THEN righe_valide
                           ELSE SubSeq(righe_valide, 1,
                                  (CHOOSE k \in rifiutate : \A h \in rifiutate : k <= h) - 1)
                file_scritto == <<[fieldnames |-> fieldnames,
                                   righe |-> [k \in 1..Len(scritte) |->
                                                riga_scritta(fieldnames, scritte[k])]]>>
            IN IF righe_scartate = <<>>
               THEN [risultato |-> risultato(TRUE, None, Len(righe_valide), <<>>, warnings,
                                             backup_file, None),
                     backup |-> file, corretto |-> <<>>]
               ELSE IF rifiutate # {}
               THEN [risultato |-> errore("Errore durante la validazione"),
                     backup |-> file, corretto |-> file_scritto]
               ELSE [risultato |-> risultato(TRUE, None, Len(righe_valide), righe_scartate,
                                             warnings, backup_file, "corretto"),
                     backup |-> file, corretto |-> file_scritto]))))

\* shutil.copy2 to the snapshot of a kind and a second: the content and the
\* modification time of the source, in place of what the name held
copy2(dir, tipo, secondo, contenuto, mtime) ==
  {e \in dir : ~(e.tipo = tipo /\ e.secondo = secondo)}
    \cup {[tipo |-> tipo, secondo |-> secondo, contenuto |-> contenuto, mtime |-> mtime]}

\* the backups of the least modification time
backup_vecchi(dir) ==
  {b \in dir : b.tipo = "backup" /\ \A c \in dir : c.tipo = "backup" => b.mtime <= c.mtime}

\* lines 179-193: the backups that can come first in the sorted list, those
\* of the greatest modification time (os.listdir orders the equal ones)
backup_recenti(dir) ==
  {b \in dir : b.tipo = "backup" /\ \A c \in dir : c.tipo = "backup" => c.mtime <= b.mtime}

\* lines 170-214, for the content and the modification time of csv_file, the
\* directory, the second of the clock and the backup the sort puts first
ripristina_backup(file, mtime, dir, secondo, backup_recente) ==
  IF \A e \in dir : e.tipo # "backup"
  THEN [risultato |-> [success |-> FALSE, error |-> "Nessun backup trovato",
                       backup_ripristinato |-> None],
        file |-> file, mtime |-> mtime, dir |-> dir]
  ELSE [risultato |-> [success |-> TRUE, error |-> None,
                       backup_ripristinato |-> backup_recente.secondo],
        file |-> <<backup_recente.contenuto>>, mtime |-> backup_recente.mtime,
        dir |-> IF file = NoFile THEN dir
                ELSE copy2(dir, "pre_ripristino", secondo, file[1], mtime)]

(***************************************************************************)
(* app.py: the votes                                                       *)
(***************************************************************************)
\* a key of the request's JSON that is not there
Assente == [tipo |-> "assente", valore |-> <<>>]

\* /api/vota that keeps the entry a key already has
vota_una_volta(file, session, data, oggi, adesso) ==
  IF session = <<>> THEN [status |-> 401, file |-> file]
  ELSE IF session[1] = <<"a","d","m","i","n">> THEN [status |-> 403, file |-> file]
  ELSE
    LET votes == IF file = NoFile THEN EmptyMap ELSE file[1]
        data_menu == IF data.data_menu = Assente THEN oggi ELSE data.data_menu.valore
        vote_key == session[1] \o <<"_">> \o data.piatto_id.valore \o <<"_">> \o data_menu
    IN [status |-> 200,
        file |-> <<IF vote_key \in DOMAIN votes THEN votes
                   ELSE Put(votes, vote_key,
                            [piatto_id |-> data.piatto_id, voto |-> data.voto,
                             commento |-> IF data.commento = Assente THEN <<>>
                                          ELSE data.commento.valore,
                             username |-> session[1], data_menu |-> data_menu,
                             timestamp |-> adesso])>>]

\* lines 561-590, with load_votes and save_votes (351-359), for the content of
\* VOTES_FILE, the session (<<>>: nobody logged in, else <<username>>), the
\* JSON of the request, the date and the time of the clock.  A value of the
\* JSON is [tipo, valore], valore being the text str() gives it: a number 7
\* is [int, '7'], a string '7' is [str, '7'], null is [None, 'None'].
vota(file, session, data, oggi, adesso) ==
  IF session = <<>> THEN [status |-> 401, file |-> file]
  ELSE IF session[1] = <<"a","d","m","i","n">> THEN [status |-> 403, file |-> file]
  ELSE
    LET votes == IF file = NoFile THEN EmptyMap ELSE file[1]
        data_menu == IF data.data_menu = Assente THEN oggi ELSE data.data_menu.valore
        vote_key == session[1] \o <<"_">> \o data.piatto_id.valore \o <<"_">> \o data_menu
    IN [status |-> 200,
        file |-> <<Put(votes, vote_key,
                       [piatto_id |-> data.piatto_id, voto |-> data.voto,
                        commento |-> IF data.commento = Assente THEN <<>>
                                     ELSE data.commento.valore,
                        username |-> session[1], data_menu |-> data_menu,
                        timestamp |-> adesso])>>]

(***************************************************************************)
(* The components the specifications below are built from.  Each           *)
(* specification runs the components in S and leaves the others at rest.   *)
(***************************************************************************)
NessunEsito == [ingrediente |-> <<>>, risposta |-> None, categoria |-> None, fonte |-> None]

\* the components outside S are at rest
Altrove(S) ==
  /\ "Qty" \notin S => testo = <<>> /\ storia = <<>>
  /\ "Class" \notin S => classificatore = <<>> /\ cache_file = NoFile /\ esito = NessunEsito
  /\ "Freq" \notin S => lista_pasti = <<>> /\ verifica = <<>>
  /\ "Csv" \notin S => csv = <<>>
  /\ "Gen" \notin S => generator = <<>> /\ corsa = <<>> /\ ritorno = <<>>
  /\ "Spesa" \notin S => spesa = <<>> /\ spesa_prima = <<>>
  /\ "Http" \notin S => risposta_http = <<>>
  /\ "Fun" \notin S => argomenti = <<>> /\ reso = <<>>
  /\ "Disco" \notin S => cartella = {} /\ orologio = [secondo |-> 0, scritture |-> 0] /\ csv_mtime = 0
  /\ "Voti" \notin S => voti_file = NoFile /\ richieste = <<>>
  /\ "Commit" \notin S => commit = <<>>

\* the components outside S do not move
Fuori(S) ==
  /\ "Qty" \notin S => UNCHANGED varsQty
  /\ "Class" \notin S => UNCHANGED varsClass
  /\ "Freq" \notin S => UNCHANGED varsFreq
  /\ "Csv" \notin S => UNCHANGED csv
  /\ "Gen" \notin S => UNCHANGED varsGen
  /\ "Spesa" \notin S => UNCHANGED varsSpesa
  /\ "Http" \notin S => UNCHANGED risposta_http
  /\ "Fun" \notin S => UNCHANGED varsFun
  /\ "Disco" \notin S => UNCHANGED varsDisco
  /\ "Voti" \notin S => UNCHANGED varsVoti
  /\ "Commit" \notin S => UNCHANGED commit

(***************************************************************************)
(* SpecQty: format(parse(.)) applied again and again to a quantity text    *)
(***************************************************************************)
MaxApplicazioni == 2

QtyTexts ==
  {
    <<"q",".","b",".">>,  \* 'q.b.'
    <<"q","b">>,  \* 'qb'
    <<"q","u","a","n","t","o"," ","b","a","s","t","a">>,  \* 'quanto basta'
    <<"a"," ","p","i","a","c","e","r","e">>,  \* 'a piacere'
    <<"Q",".","B",".">>,  \* 'Q.B.'
    <<" ","q",".","b","."," ">>,  \* ' q.b. '
    <<"a","b","c">>,  \* 'abc'
    <<>>,  \* ''
    <<"1","0","0","g">>,  \* '100g'
    <<"1"," ","s","c","a","t","o","l","a">>,  \* '1 scatola'
    <<"8","0","g">>,  \* '80g'
    <<"1","5","0","g">>,  \* '150g'
    <<"2"," ","f","e","t","t","e">>,  \* '2 fette'
    <<"2"," ","g","a","m","b","i">>,  \* '2 gambi'
    <<"3"," ","l","i","m","o","n","i">>,  \* '3 limoni'
    <<"1",".","5"," ","k","g">>,  \* '1.5 kg'
    <<"0",".","5"," ","k","g">>,  \* '0.5 kg'
    <<"2"," ","l">>,  \* '2 l'
    <<"1",".","5"," ","l">>,  \* '1.5 l'
    <<"2",".","5"," ","c","l">>,  \* '2.5 cl'
    <<"3","3"," ","c","l">>,  \* '33 cl'
    <<"2","5","0"," ","m","l">>,  \* '250 ml'
    <<"1","0","0","0"," ","g">>,  \* '1000 g'
    <<"9","9","9"," ","g">>,  \* '999 g'
    <<"9","9","9",".","5"," ","g">>,  \* '999.5 g'
    <<"9","9","9",".","9","6"," ","g">>,  \* '999.96 g'
    <<"1","2","0","0"," ","m","l">>,  \* '1200 ml'
    <<"2","0","0","0","m","l">>,  \* '2000ml'
    <<"0",".","0","4"," ","g">>,  \* '0.04 g'
    <<"2",".","9","6"," ","p","e","z","z","i">>,  \* '2.96 pezzi'
    <<"3"," ","p","e","z","z","i">>,  \* '3 pezzi'
    <<"2">>,  \* '2'
    <<"0",".","5">>,  \* '0.5'
    <<"2",".","5"," ","u","n","i","t","agrave">>,  \* '2.5 unità'
    <<"1"," ","b","i","c","c","h","i","e","r","e">>,  \* '1 bicchiere'
    <<"1"," ","b","u","s","t","i","n","a">>,  \* '1 bustina'
    <<"2"," ","c","o","s","t","a">>,  \* '2 costa'
    <<"1"," ","s","t","e","c","c","a">>,  \* '1 stecca'
    <<"1"," ","f","o","g","l","i","o">>,  \* '1 foglio'
    <<"2"," ","f","o","g","l","i">>,  \* '2 fogli'
    <<"1"," ","p","i","c","c","o","l","a">>,  \* '1 piccola'
    <<"1","0">>,  \* '10'
    <<"1","0","5","0"," ","g">>,  \* '1050 g'
    <<"1","2","5","0","g">>,  \* '1250g'
    <<"5",".">>,  \* '5.'
    <<"1",",","5"," ","k","g">>,  \* '1,5 kg'
    <<".","5">>,  \* '.5'
    <<"-","5">>,  \* '-5'
    <<"1","2",".","3","4"," ","g">>,  \* '12.34 g'
    <<"3"," ","K","G">>,  \* '3 KG'
    <<"2"," ","P","e","z","z","i">>,  \* '2 Pezzi'
    <<"0",".","2","5">>,  \* '0.25'
    <<"3","5","0","g">>,  \* '350g'
    <<"2","6","0","g">>,  \* '260g'
    <<"1"," ","k","g">>,  \* '1 kg'
    <<"0"," ","g">>,  \* '0 g'
    <<"7",".","5"," ","m","l">>,  \* '7.5 ml'
    <<"9","9","9",".","9","5"," ","m","l">>,  \* '999.95 ml'
    <<"1",".","9","6"," ","l">>,  \* '1.96 l'
    <<"2","0"," ","u","n","i","t","agrave">> }  \* '20 unità'

\* the texts above, a text with a sign, and None
QtyInit ==
  /\ testo \in QtyTexts \cup {<<"-","5"," ","g">>, NoneText}
  /\ storia = <<>>
  /\ Altrove({"Qty"})

\* one more format(parse(.)) of the latest text
FormatParse ==
  /\ Len(storia) < MaxApplicazioni
  /\ \E su \in BOOLEAN :
       LET t == IF storia = <<>> THEN testo ELSE storia[Len(storia)]
           p == parse_quantita(t)
       IN storia' = Append(storia, formatta_quantita(p[1], p[2], su))
  /\ UNCHANGED testo
  /\ Fuori({"Qty"})

QtyNext == FormatParse

SpecQty == QtyInit /\ [][QtyNext]_vars

\* C2: format(parse(.)) is idempotent on every supported quantity text:
\* the second application returns the text the first one returned.
C2_FormatParseIdempotent ==
  Len(storia) >= 2 => storia[2] = storia[1]

\* C29: a number followed by a word that is not a whole token of the unit
\* vocabulary parses to that number with the count unit.
C29_UnitIsWholeToken ==
  \A t \in {testo} \cup {storia[i] : i \in 1..Len(storia)} :
    t # NoneText =>
      LET s == lower(strip(t))
          ni == SpanDigits(s, 1)
          dot == IF ni + 1 <= Len(s) /\ s[ni + 1] = "." THEN 1 ELSE 0
          nf == IF dot = 1 THEN SpanDigits(s, ni + 2) ELSE 0
          fine == ni + dot + nf + 1
          parola == SubSeq(s, fine + SpanSpaces(s, fine), Len(s))
          numero == Num(DigitsToNat(SubSeq(s, 1, ni) \o SubSeq(s, ni + 2, ni + 1 + nf)),
                        Pow10(nf))
      IN (/\ s \notin FRASI_QB
          /\ ni > 0
          /\ parola # <<>>
          /\ \A k \in 1..Len(UNITA_RE) : parola # UNITA_RE[k]) =>
           /\ NumEq(parse_quantita(t)[1], numero)
           /\ parse_quantita(t)[2] = U_unita

\* C30: parse_quantita returns, for every input, a value that is not
\* negative with a unit of its units; an input that is not a text, or whose
\* trimmed lowercase form is neither an as-needed phrase nor begins with a
\* digit, gives (0, as-needed).
C30_ParseIsTotal ==
  \A t \in {testo} \cup {storia[i] : i \in 1..Len(storia)} :
    LET p == parse_quantita(t)
        s == lower(strip(t))
    IN /\ p[1].n >= 0 /\ p[1].d > 0
       /\ p[2] \in {U_qb, U_g, U_ml} \cup {UNITA_RE[k] : k \in 1..Len(UNITA_RE)}
       /\ p[2] = U_qb => p[1] = Zero
       /\ (t = NoneText \/ (s \notin FRASI_QB /\ (s = <<>> \/ ~IsDigit(s[1]))))
            => p = <<Zero, U_qb>>

\* the inputs None, a negative number, the empty text and a word, each parsed
\* and formatted
C30_Witness ==
  /\ testo \in {NoneText, <<"-","5"," ","g">>, <<"-","5">>, <<>>, <<"a","b","c">>}
  /\ Len(storia) = 1
  /\ storia[1] = <<"q",".","b",".">>

(***************************************************************************)
(* SpecClass: one classifier instance and its calls                        *)
(***************************************************************************)
MaxClassifiche == 3

NomiClass ==
  { <<"P","a","s","t","a">>,        \* "Pasta": in the dictionary
    <<" ","p","a","s","t","a"," ">>,    \* " pasta ": the same name once normalized
    <<"S","p","e","c","k">>,        \* "Speck": only a pattern of the heuristic
    <<"E","d","a","m","a","m","e">> } \* "Edamame": nothing matches

Risposte == {None, "Surgelati", "Altri"}

\* a cache file left by an earlier process
FileVecchio == <<Put(EmptyMap, <<"e","d","a","m","a","m","e">>, "Frutta e Verdura")>>

ClassInit ==
  /\ cache_file \in {NoFile, FileVecchio}
  /\ \E use_ai \in BOOLEAN, key \in BOOLEAN :
       classificatore = <<ClassificatoreIngredienti(use_ai, key, cache_file)>>
  /\ esito = NessunEsito
  /\ Altrove({"Class"})

Classifica(ingrediente, risposta) ==
  /\ get_stats(classificatore[1]) < MaxClassifiche
  /\ LET r == classifica(classificatore[1], ingrediente, risposta)
     IN /\ classificatore' = <<r.c>>
        /\ cache_file' = IF r.salvata THEN save_cache(r.c) ELSE cache_file
        /\ esito' = [ingrediente |-> ingrediente, risposta |-> risposta,
                     categoria |-> r.categoria, fonte |-> r.fonte]
  /\ Fuori({"Class"})

ClassNext ==
  \E ingrediente \in NomiClass, risposta \in Risposte : Classifica(ingrediente, risposta)

SpecClass == ClassInit /\ [][ClassNext]_vars

\* C6: once a normalized name is in the cache, no call of classifica changes
\* or removes its entry (in memory or in the cache file), and every call
\* for a name with that normalization returns the cached category with
\* source "cache".
C6_CacheStable ==
  [][ LET c == classificatore[1]
          d == classificatore'[1]
          n == normalize_ingredient(esito'.ingrediente)
      IN /\ \A k \in DOMAIN c.cache : k \in DOMAIN d.cache /\ d.cache[k] = c.cache[k]
         /\ cache_file # NoFile =>
              /\ cache_file' # NoFile
              /\ \A k \in DOMAIN cache_file[1] :
                    k \in DOMAIN cache_file'[1] /\ cache_file'[1][k] = cache_file[1][k]
         /\ n \in DOMAIN c.cache =>
              esito'.categoria = c.cache[n] /\ esito'.fonte = "cache" ]_vars

\* a name the external service resolved to "Surgelati" is answered from the
\* cache by a later call in which the service gives no answer
C6_Witness ==
  /\ esito.fonte = "cache"
  /\ esito.categoria = "Surgelati"
  /\ esito.risposta = None
  /\ classificatore[1].stats.ai_queries >= 1

\* C7 as stated: the source names the tier that resolved the name, in the
\* order cache, dictionary, external service, local heuristic, fallback; the
\* source is "ai" only for an answer of the external service ("Altri"
\* included); a pattern of the heuristic gives a label of its own; and the
\* heuristic runs whenever the service gives no answer, also when the
\* instance is built with the service disabled.
C7_FonteNamesTier ==
  [][ LET c == classificatore[1]
          nome == esito'.ingrediente
          n == normalize_ingredient(nome)
          base == memo_dizionario_base(n)
          servizio == IF c.use_ai /\ c.groq_api_key THEN esito'.risposta ELSE None
          locale == memo_euristica(nome)
      IN IF n \in DOMAIN c.cache
         THEN esito'.fonte = "cache" /\ esito'.categoria = c.cache[n]
         ELSE IF base # None
         THEN esito'.fonte = "base" /\ esito'.categoria = base
         ELSE IF servizio # None
         THEN esito'.fonte = "ai" /\ esito'.categoria = servizio
         ELSE IF locale # "Altri"
         THEN esito'.fonte \notin {"cache", "base", "ai", "unknown"} /\ esito'.categoria = locale
         ELSE esito'.fonte = "unknown" /\ esito'.categoria = "Altri" ]_vars

\* C7 as amended: cache, then dictionary; then, only in an instance built
\* with use_ai true, the answer of the external service or, without one, the
\* category of the first matching pattern of the heuristic: either is
\* returned with source "ai" unless it is "Altri"; everything else, an
\* instance built with use_ai false included, is "Altri" with source
\* "unknown".
C7_FonteAmended ==
  [][ LET c == classificatore[1]
          nome == esito'.ingrediente
          n == normalize_ingredient(nome)
          base == memo_dizionario_base(n)
          servizio == IF c.groq_api_key THEN esito'.risposta ELSE None
          locale == memo_euristica(nome)
          scelta == IF ~c.use_ai THEN None
                    ELSE IF servizio # None THEN servizio
                    ELSE locale
      IN IF n \in DOMAIN c.cache
         THEN esito'.fonte = "cache" /\ esito'.categoria = c.cache[n]
         ELSE IF base # None
         THEN esito'.fonte = "base" /\ esito'.categoria = base
         ELSE IF scelta \notin {None, "Altri"}
         THEN esito'.fonte = "ai" /\ esito'.categoria = scelta
         ELSE esito'.fonte = "unknown" /\ esito'.categoria = "Altri" ]_vars

\* the heuristic resolved a name the service gave no answer for, in an
\* instance with the service enabled and configured
C7_Witness ==
  /\ esito.fonte = "ai"
  /\ esito.risposta = None
  /\ esito.categoria = "Macelleria e Pescheria"
  /\ classificatore[1].use_ai /\ classificatore[1].groq_api_key

MaxPasti == 5

PastiNoti ==
  { <<[categoria_proteica |-> "legumi"]>>,
    <<[categoria_proteica |-> "pesce_bianco"]>>,
    <<[categoria_proteica |-> "formaggi_stagionati"]>>,
    <<[ingredienti |-> <<"P","a","s","t","a","|","C","e","c","i","|","P","o","m","o","d","o","r","o">>]>>,      \* 'Pasta|Ceci|Pomodoro'
    <<[categoria_proteica |-> None, ingredienti |-> <<"P","a","s","t","a","|","C","e","c","i","|","P","o","m","o","d","o","r","o">>]>>,
    <<>> }                               \* None

FreqInit ==
  /\ lista_pasti \in UNION {[1..n -> PastiNoti] : n \in 0..MaxPasti}
  /\ verifica = <<>>
  /\ Altrove({"Freq"})

Verifica ==
  /\ verifica = <<>>
  /\ verifica' = <<verifica_frequenze_settimanali(lista_pasti)>>
  /\ UNCHANGED lista_pasti
  /\ Fuori({"Freq"})

FreqNext == Verifica

SpecFreq == FreqInit /\ [][FreqNext]_vars

\* C5: for a list of meals, the returned counts are the numbers of meals of
\* each category; the list is valid iff every count is within [min, max] of
\* FREQUENZE_SETTIMANALI, and then there is no violation; otherwise there
\* is exactly one violation for each breached bound, naming the category,
\* the count and the bound.
C5_ValidIffWithinBounds ==
  (verifica # <<>> /\ verifica[1].eccezione = None) =>
    LET v == verifica[1]
        F == FREQUENZE_SETTIMANALI
        quanti(cat) == Cardinality({i \in 1..Len(lista_pasti) :
                                      categoria_del_pasto(lista_pasti[i][1]) = cat})
        rotti == {<<k, l>> \in (1..Len(F)) \X {"minimo", "massimo"} :
                    IF l = "minimo" THEN v.conteggi[F[k].categoria] < F[k].min
                                    ELSE v.conteggi[F[k].categoria] > F[k].max}
    IN /\ \A k \in 1..Len(F) : v.conteggi[F[k].categoria] = quanti(F[k].categoria)
       /\ v.valido <=> \A k \in 1..Len(F) :
                         F[k].min <= v.conteggi[F[k].categoria]
                         /\ v.conteggi[F[k].categoria] <= F[k].max
       /\ v.valido <=> v.errori = <<>>
       /\ Len(v.errori) = Cardinality(rotti)
       /\ \A r \in rotti : \E i \in 1..Len(v.errori) :
            v.errori[i] = [categoria |-> F[r[1]].categoria,
                           count |-> v.conteggi[F[r[1]].categoria],
                           limite |-> r[2],
                           soglia |-> IF r[2] = "minimo" THEN F[r[1]].min ELSE F[r[1]].max]
       /\ (v.conteggi["legumi"] = 1) =>
            \E i \in 1..Len(v.errori) :
              v.errori[i] = [categoria |-> "legumi", count |-> 1, limite |-> "minimo", soglia |-> 2]

\* a list with two meals of legumes (one recognised by its ingredients) and
\* two of white fish is found valid
C5_Witness ==
  /\ verifica # <<>>
  /\ verifica[1].eccezione = None
  /\ verifica[1].valido
  /\ verifica[1].conteggi["legumi"] = 2
  /\ \E i \in 1..Len(lista_pasti) : "categoria_proteica" \notin DOMAIN lista_pasti[i][1]

(***************************************************************************)
(* SpecGen: a MenuGenerator built on a data source, and one call of a       *)
(* generation function                                                     *)
(***************************************************************************)
MaxGiro == 2
MaxBlocco == 3
MaxTentativi == 2

\* a dish without protein category, one or two active dishes of every
\* category and an inactive one
CsvCompleto ==
  <<[fieldnames |-> FIELDNAMES,
    righe |-> <<
      <<<<"1">>, <<"0","6","/","0","1","/","2","0","2","5">>, <<"I","n","s","a","l","a","t","a">>, <<>>, <<"S","e","c","o","n","d","o">>, <<"5">>, <<"S","I">>, <<>>, <<"L","a","t","t","u","g","a","|","C","a","r","o","t","e">>, <<>>>>,
      <<<<"2">>, <<"0","6","/","0","1","/","2","0","2","5">>, <<"P","a","s","t","a"," ","e"," ","c","e","c","i">>, <<>>, <<"S","e","c","o","n","d","o">>, <<"5">>, <<"S","I">>, <<>>, <<"P","a","s","t","a","|","C","e","c","i">>, <<>>>>,
      <<<<"3">>, <<"0","6","/","0","1","/","2","0","2","5">>, <<"F","r","i","t","t","a","t","a">>, <<>>, <<"S","e","c","o","n","d","o">>, <<"5">>, <<"S","I">>, <<>>, <<"U","o","v","a","|","S","p","i","n","a","c","i">>, <<>>>>,
      <<<<"4">>, <<"0","6","/","0","1","/","2","0","2","5">>, <<"P","o","l","l","o">>, <<>>, <<"S","e","c","o","n","d","o">>, <<"5">>, <<"S","I">>, <<>>, <<"P","o","l","l","o">>, <<>>>>,
      <<<<"5">>, <<"0","6","/","0","1","/","2","0","2","5">>, <<"M","a","n","z","o">>, <<>>, <<"S","e","c","o","n","d","o">>, <<"5">>, <<"S","I">>, <<>>, <<"M","a","n","z","o">>, <<>>>>,
      <<<<"6">>, <<"0","6","/","0","1","/","2","0","2","5">>, <<"R","i","c","o","t","t","a">>, <<>>, <<"S","e","c","o","n","d","o">>, <<"5">>, <<"S","I">>, <<>>, <<"R","i","c","o","t","t","a">>, <<>>>>,
      <<<<"7">>, <<"0","6","/","0","1","/","2","0","2","5">>, <<"G","r","a","n","a">>, <<>>, <<"S","e","c","o","n","d","o">>, <<"5">>, <<"S","I">>, <<>>, <<"G","r","a","n","a">>, <<>>>>,
      <<<<"8">>, <<"0","6","/","0","1","/","2","0","2","5">>, <<"O","r","a","t","a">>, <<>>, <<"S","e","c","o","n","d","o">>, <<"5">>, <<"S","I">>, <<>>, <<"O","r","a","t","a">>, <<>>>>,
      <<<<"9">>, <<"0","6","/","0","1","/","2","0","2","5">>, <<"S","a","l","m","o","n","e">>, <<>>, <<"S","e","c","o","n","d","o">>, <<"5">>, <<"S","I">>, <<>>, <<"S","a","l","m","o","n","e">>, <<>>>>,
      <<<<"1","0">>, <<"0","6","/","0","1","/","2","0","2","5">>, <<"C","o","z","z","e">>, <<>>, <<"S","e","c","o","n","d","o">>, <<"5">>, <<"S","I">>, <<>>, <<"C","o","z","z","e">>, <<>>>>,
      <<<<"1","1">>, <<"0","6","/","0","1","/","2","0","2","5">>, <<"T","o","n","n","o">>, <<>>, <<"S","e","c","o","n","d","o">>, <<"5">>, <<"S","I">>, <<>>, <<"T","o","n","n","o"," ","i","n"," ","s","c","a","t","o","l","a">>, <<>>>>,
      <<<<"1","2">>, <<"0","6","/","0","1","/","2","0","2","5">>, <<"B","r","e","s","a","o","l","a">>, <<>>, <<"S","e","c","o","n","d","o">>, <<"5">>, <<"S","I">>, <<>>, <<"B","r","e","s","a","o","l","a">>, <<>>>>,
      <<<<"1","3">>, <<"0","6","/","0","1","/","2","0","2","5">>, <<"L","e","n","t","i","c","c","h","i","e">>, <<>>, <<"S","e","c","o","n","d","o">>, <<"5">>, <<"S","I">>, <<>>, <<"L","e","n","t","i","c","c","h","i","e">>, <<>>>>,
      <<<<"1","4">>, <<"0","6","/","0","1","/","2","0","2","5">>, <<"F","a","g","i","o","l","i">>, <<>>, <<"S","e","c","o","n","d","o">>, <<"5">>, <<"N","O">>, <<>>, <<"F","a","g","i","o","l","i">>, <<>>>> >>]>>

\* legumes, white fish and a dish without category
CsvTre ==
  <<[fieldnames |-> FIELDNAMES,
    righe |-> <<
      <<<<"1">>, <<"0","6","/","0","1","/","2","0","2","5">>, <<"P","a","s","t","a"," ","e"," ","c","e","c","i">>, <<>>, <<"S","e","c","o","n","d","o">>, <<"5">>, <<"S","I">>, <<>>, <<"P","a","s","t","a","|","C","e","c","i">>, <<>>>>,
      <<<<"2">>, <<"0","6","/","0","1","/","2","0","2","5">>, <<"O","r","a","t","a">>, <<>>, <<"S","e","c","o","n","d","o">>, <<"5">>, <<"S","I">>, <<>>, <<"O","r","a","t","a">>, <<>>>>,
      <<<<"3">>, <<"0","6","/","0","1","/","2","0","2","5">>, <<"I","n","s","a","l","a","t","a">>, <<>>, <<"S","e","c","o","n","d","o">>, <<"5">>, <<"S","I">>, <<>>, <<"L","a","t","t","u","g","a","|","C","a","r","o","t","e">>, <<>>>> >>]>>

\* no white fish, and most other categories missing
CsvSenzaPesce ==
  <<[fieldnames |-> FIELDNAMES,
    righe |-> <<
      <<<<"1">>, <<"0","6","/","0","1","/","2","0","2","5">>, <<"I","n","s","a","l","a","t","a">>, <<>>, <<"S","e","c","o","n","d","o">>, <<"5">>, <<"S","I">>, <<>>, <<"L","a","t","t","u","g","a","|","C","a","r","o","t","e">>, <<>>>>,
      <<<<"2">>, <<"0","6","/","0","1","/","2","0","2","5">>, <<"L","e","n","t","i","c","c","h","i","e">>, <<>>, <<"S","e","c","o","n","d","o">>, <<"5">>, <<"S","I">>, <<>>, <<"L","e","n","t","i","c","c","h","i","e">>, <<>>>> >>]>>

\* the second line ends after attivo: seven fields for ten columns
CsvRigaCorta ==
  <<[fieldnames |-> FIELDNAMES,
    righe |-> <<
      <<<<"1">>, <<"0","6","/","0","1","/","2","0","2","5">>, <<"O","r","a","t","a">>, <<>>, <<"S","e","c","o","n","d","o">>, <<"5">>, <<"S","I">>, <<>>, <<"O","r","a","t","a">>, <<>>>>,
      <<<<"2">>, <<"0","6","/","0","1","/","2","0","2","5">>, <<"P","o","l","l","o">>, <<>>, <<"S","e","c","o","n","d","o">>, <<"5">>, <<"S","I">>>>,
      <<<<"3">>, <<"0","6","/","0","1","/","2","0","2","5">>, <<"P","a","s","t","a"," ","e"," ","c","e","c","i">>, <<>>, <<"S","e","c","o","n","d","o">>, <<"5">>, <<"S","I">>, <<>>, <<"P","a","s","t","a","|","C","e","c","i">>, <<>>>> >>]>>

\* the header alone
CsvVuoto ==
  <<[fieldnames |-> FIELDNAMES, righe |-> <<>>]>>

\* the permutations a shuffle is drawn from: a rotation, possibly reversed
Mescola(giro, rovescia) ==
  [i \in 1..14 |-> (((IF rovescia THEN 15 - i ELSE i) + giro - 1) % 14) + 1]

\* the random sources the 14 choices are drawn from: a times 0, b times 1,
\* then 2
Tiri(t) == [i \in 1..14 |-> IF i <= t[1] THEN 0 ELSE IF i <= t[1] + t[2] THEN 1 ELSE 2]

GenInit ==
  /\ csv \in {<<>>, CsvCompleto, CsvTre, CsvSenzaPesce, CsvRigaCorta, CsvVuoto}
  /\ generator = <<MenuGenerator(csv)>>
  /\ corsa = <<>>
  /\ ritorno = <<>>
  /\ Altrove({"Csv", "Gen"})

GeneraIntelligente(mescola_slot, mescola_piano, t) ==
  /\ corsa = <<>> /\ ritorno = <<>>
  /\ ritorno' = <<genera_settimana_intelligente(generator[1], mescola_slot,
                                                mescola_piano, Tiri(t))>>
  /\ UNCHANGED <<csv, generator, corsa>>
  /\ Fuori({"Csv", "Gen"})

\* the call genera_settimana_bilanciata(tentativi_max): with no iteration to
\* run, line 101 reads menu_settimana before any assignment
GeneraBilanciata(tentativi_max) ==
  /\ corsa = <<>> /\ ritorno = <<>>
  /\ corsa' = <<[tentativi_max |-> tentativi_max, fatti |-> <<>>,
                 finita |-> tentativi_max = 0]>>
  /\ ritorno' = IF tentativi_max = 0
                THEN <<[funzione |-> "bilanciata", eccezione |-> "UnboundLocalError",
                        menu_settimana |-> <<>>, conteggi |-> EmptyMap, valido |-> FALSE]>>
                ELSE <<>>
  /\ UNCHANGED <<csv, generator>>
  /\ Fuori({"Csv", "Gen"})

Tentativo(t) ==
  /\ corsa # <<>> /\ ~corsa[1].finita
  /\ \E r \in {tentativo_bilanciata(generator[1], corsa[1], Tiri(t), t)} :
       corsa' = <<r.corsa>> /\ ritorno' = r.ritorno
  /\ UNCHANGED <<csv, generator>>
  /\ Fuori({"Csv", "Gen"})

GenNext ==
  \/ \E g1 \in 0..MaxGiro, r1 \in BOOLEAN, g2 \in 0..MaxGiro, r2 \in BOOLEAN,
        t \in (0..MaxBlocco) \X (0..MaxBlocco) :
       GeneraIntelligente(Mescola(g1, r1), Mescola(g2, r2), t)
  \/ \E k \in 0..MaxTentativi : GeneraBilanciata(k)
  \/ \E t \in (0..MaxBlocco) \X (0..MaxBlocco) : Tentativo(t)

SpecGen == GenInit /\ [][GenNext]_vars

\* C4: with at least one active dish in every protein category, whatever
\* the shuffles and the draws, genera_settimana_intelligente returns a plan
\* with a dish in each of the 14 slots, and the returned counts sum to 14.
C4_FourteenSlots ==
  (/\ ritorno # <<>>
   /\ ritorno[1].funzione = "intelligente"
   /\ \A k \in 1..Len(CATEGORIE_PROTEINE) :
        \E i \in 1..Len(generator[1].piatti_disponibili) :
          generator[1].piatti_disponibili[i].categoria_proteica = CATEGORIE_PROTEINE[k].categoria)
  => LET r == ritorno[1]
         RECURSIVE somma(_)
         somma(k) == IF k = 0 THEN 0
                     ELSE somma(k - 1) + r.conteggi[FREQUENZE_SETTIMANALI[k].categoria]
     IN /\ r.eccezione = None
        /\ DOMAIN r.menu_settimana = 1..7
        /\ \A g \in 1..7 : r.menu_settimana[g].pranzo # <<>> /\ r.menu_settimana[g].cena # <<>>
        /\ somma(Len(FREQUENZE_SETTIMANALI)) = 14

\* a plan made on the complete catalog with both shuffles moving the slots,
\* where the two dishes of legumes are both picked
C4_Witness ==
  /\ csv = CsvCompleto
  /\ ritorno # <<>>
  /\ ritorno[1].funzione = "intelligente"
  /\ ritorno[1].eccezione = None
  /\ ritorno[1].menu_settimana[1].pranzo[1].categoria_proteica # "legumi"
  /\ \E g \in 1..7 : \/ ritorno[1].menu_settimana[g].pranzo[1].nome = <<"L","e","n","t","i","c","c","h","i","e">>
                     \/ ritorno[1].menu_settimana[g].cena[1].nome = <<"L","e","n","t","i","c","c","h","i","e">>
  /\ \E g \in 1..7 : \/ ritorno[1].menu_settimana[g].pranzo[1].nome = <<"P","a","s","t","a"," ","e"," ","c","e","c","i">>
                     \/ ritorno[1].menu_settimana[g].cena[1].nome = <<"P","a","s","t","a"," ","e"," ","c","e","c","i">>

\* C9: on a non-empty catalog, genera_settimana_bilanciata(k), k >= 1, makes
\* at most k attempts of 14 sampled dishes; no attempt follows a valid one;
\* the call returns exactly at the first valid attempt, with valid true, or
\* after the k-th attempt when none was valid, with that attempt's menu and
\* counts and valid false.
C9_BoundedRetry ==
  (/\ corsa # <<>>
   /\ corsa[1].tentativi_max >= 1
   /\ generator[1].piatti_disponibili # <<>>)
  => LET c == corsa[1]
         n == Len(c.fatti)
         pasti(i) == campiona(generator[1], Tiri(c.fatti[i]))
         esame(i) == verifica_frequenze_settimanali(pasti(i))
     IN /\ n <= c.tentativi_max
        /\ \A i \in 1..n :
             /\ Len(pasti(i)) = 14
             /\ \A s \in 1..14 : \E j \in 1..Len(generator[1].piatti_disponibili) :
                  pasti(i)[s] = <<generator[1].piatti_disponibili[j]>>
        /\ \A i \in 1..(n - 1) : ~esame(i).valido
        /\ c.finita <=> (n >= 1 /\ (esame(n).valido \/ n = c.tentativi_max))
        /\ (ritorno # <<>>) <=> c.finita
        /\ c.finita =>
             /\ ritorno[1].eccezione = None
             /\ ritorno[1].menu_settimana = menu_di(pasti(n))
             /\ ritorno[1].conteggi = esame(n).conteggi
             /\ ritorno[1].valido = esame(n).valido

\* a call with k = 2 whose first attempt is not valid and whose second is
C9_Witness ==
  /\ corsa # <<>>
  /\ corsa[1].tentativi_max = 2
  /\ Len(corsa[1].fatti) = 2
  /\ ritorno # <<>>
  /\ ritorno[1].valido
  /\ ritorno[1].conteggi["legumi"] = 2

\* C20: whatever the catalog and the attempt bound, a generation call that
\* has ended has returned a plan, its counts and its validity without
\* raising, an empty catalog giving valido False; and a call of
\* genera_settimana_bilanciata makes no more attempts than its bound.
C20_AlwaysReturnsTriple ==
  /\ ritorno # <<>> =>
       /\ ritorno[1].eccezione = None
       /\ DOMAIN ritorno[1].menu_settimana = 1..7
       /\ generator[1].piatti_disponibili = <<>> => ~ritorno[1].valido
  /\ corsa # <<>> =>
       /\ Len(corsa[1].fatti) <= corsa[1].tentativi_max
       /\ corsa[1].finita => ritorno # <<>>

\* C21: with an active dish in each of the eight categories of the piano,
\* whatever the shuffles and the draws, genera_settimana_intelligente returns
\* valido True and the counts of the piano: 2 legumi, 2 pesce_bianco,
\* 3 carne_bianca, 2 uova, 2 formaggi_freschi, 1 carne_rossa, 1 pesce_grasso,
\* 1 formaggi_stagionati and 0 for the other three categories.
C21_QuotaIsValid ==
  LET Quota == [legumi |-> 2, pesce_bianco |-> 2, carne_bianca |-> 3, uova |-> 2,
                formaggi_freschi |-> 2, carne_rossa |-> 1, pesce_grasso |-> 1,
                formaggi_stagionati |-> 1, crostacei_molluschi |-> 0,
                tonno_scatola |-> 0, affettati |-> 0]
      ha(cat) == \E i \in 1..Len(generator[1].piatti_disponibili) :
                   generator[1].piatti_disponibili[i].categoria_proteica = cat
  IN (/\ ritorno # <<>>
      /\ ritorno[1].funzione = "intelligente"
      /\ \A cat \in DOMAIN Quota : Quota[cat] > 0 => ha(cat))
     => /\ ritorno[1].eccezione = None
        /\ ritorno[1].valido
        /\ DOMAIN ritorno[1].conteggi = DOMAIN Quota
        /\ \A cat \in DOMAIN Quota : ritorno[1].conteggi[cat] = Quota[cat]
        /\ \A k \in 1..Len(FREQUENZE_SETTIMANALI) :
             /\ FREQUENZE_SETTIMANALI[k].min <= Quota[FREQUENZE_SETTIMANALI[k].categoria]
             /\ Quota[FREQUENZE_SETTIMANALI[k].categoria] <= FREQUENZE_SETTIMANALI[k].max

\* a plan made on a catalog with the eight categories, with the slots and
\* the piano both shuffled
C21_Witness ==
  /\ ritorno # <<>>
  /\ ritorno[1].funzione = "intelligente"
  /\ ritorno[1].valido
  /\ ritorno[1].conteggi["carne_bianca"] = 3
  /\ ritorno[1].menu_settimana[1].pranzo[1].categoria_proteica # "legumi"
  /\ ritorno[1].menu_settimana[7].cena[1].categoria_proteica # "formaggi_stagionati"

(***************************************************************************)
(* SpecSpesa: shopping lists computed on a data source, a first call and    *)
(* then the call for the same dates and twice the people                   *)
(***************************************************************************)
MaxPersone == 2

\* three dishes of 6 January 2025
CsvScenario ==
  <<[fieldnames |-> FIELDNAMES,
    righe |-> <<
      <<<<"1">>, <<"0","6","/","0","1","/","2","0","2","5">>, <<"P","a","s","t","a"," ","a","l"," ","t","o","n","n","o">>, <<>>, <<"P","r","i","m","o">>, <<"5">>, <<"S","I">>, <<>>, <<"P","a","s","t","a","|","T","o","n","n","o"," ","i","n"," ","s","c","a","t","o","l","a">>, <<"1","0","0","g","|","1"," ","s","c","a","t","o","l","a">>>>,
      <<<<"2">>, <<"0","6","/","0","1","/","2","0","2","5">>, <<"R","i","s","o"," ","e"," ","p","o","l","l","o">>, <<>>, <<"P","r","i","m","o">>, <<"5">>, <<"S","I">>, <<>>, <<"R","i","s","o","|","P","o","l","l","o">>, <<"8","0","g","|","1","5","0","g">>>>,
      <<<<"3">>, <<"0","6","/","0","1","/","2","0","2","5">>, <<"P","a","n","e">>, <<>>, <<"P","r","i","m","o">>, <<"5">>, <<"S","I">>, <<>>, <<"P","a","n","e">>, <<"2"," ","f","e","t","t","e">>>> >>]>>

\* two dates, one in each format; an inactive row and a row of three
\* fields; quantities in g, kg, l and cl, one as needed and one missing; a
\* dish with two ingredients and no quantity
CsvMisto ==
  <<[fieldnames |-> FIELDNAMES,
    righe |-> <<
      <<<<"1">>, <<"0","6","/","0","1","/","2","0","2","5">>, <<"P","a","s","t","a"," ","e"," ","e","d","a","m","a","m","e">>, <<>>, <<"P","r","i","m","o">>, <<"5">>, <<"S","I">>, <<>>, <<"P","a","s","t","a","|","S","a","l","e","|","E","d","a","m","a","m","e">>, <<"3","2","0","g","|","q",".","b",".">>>>,
      <<<<"2">>, <<"2","0","2","5","-","0","1","-","0","7">>, <<"P","a","s","t","a"," ","e"," ","s","p","e","c","k">>, <<>>, <<"P","r","i","m","o">>, <<"5">>, <<" ","s","i"," ">>, <<>>, <<"P","a","s","t","a","|"," ","S","p","e","c","k"," ">>, <<"2","0","0"," ","g","|","0",".","5"," ","k","g">>>>,
      <<<<"3">>, <<"0","6","/","0","1","/","2","0","2","5">>, <<"R","i","s","o">>, <<>>, <<"P","r","i","m","o">>, <<"5">>, <<"N","O">>, <<>>, <<"R","i","s","o">>, <<"8","0","g">>>>,
      <<<<"4">>, <<"0","6","/","0","1","/","2","0","2","5">>, <<"P","o","l","l","o">>>>,
      <<<<"5">>, <<"2","0","2","5","-","0","1","-","0","7">>, <<"P","a","s","t","a"," ","e"," ","l","a","t","t","e">>, <<>>, <<"P","r","i","m","o">>, <<"5">>, <<"S","I">>, <<>>, <<"P","a","s","t","a","|","L","a","t","t","e">>, <<"1"," ","l","|","2","5"," ","c","l">>>>,
      <<<<"6">>, <<"0","6","/","0","1","/","2","0","2","5">>, <<"P","a","n","e"," ","e"," ","o","l","i","o">>, <<>>, <<"P","r","i","m","o">>, <<"5">>, <<"S","I">>, <<>>, <<"P","a","n","e","|","O","l","i","o">>, <<>>>> >>]>>

DateSpesa == {<<<<"2","0","2","5","-","0","1","-","0","6">>>>, <<<<"2","0","2","5","-","0","1","-","0","7">>>>, <<<<"2","0","2","5","-","0","1","-","0","6">>, <<"2","0","2","5","-","0","1","-","0","7">>>>}

\* a cache file left by an earlier process
FileSpesa == <<Put(EmptyMap, <<"p","a","s","t","a">>, "Surgelati")>>

SpesaInit ==
  /\ csv \in {<<>>, CsvScenario, CsvMisto}
  /\ cache_file \in {NoFile, FileSpesa}
  /\ classificatore = <<>>
  /\ esito = NessunEsito
  /\ spesa = <<>>
  /\ spesa_prima = <<>>
  /\ Altrove({"Csv", "Class", "Spesa"})

\* one call of calcola_lista_spesa; the first one builds the classifier
\* (get_classificatore, lines 345-350), key telling whether GROQ_API_KEY is set
ListaSpesa(date_selezionate, num_persone, su, key, risposte) ==
  /\ \/ spesa = <<>> /\ num_persone <= MaxPersone
     \/ /\ spesa # <<>> /\ spesa_prima = <<>>
        /\ date_selezionate = spesa[1].date_selezionate
        /\ num_persone = 2 * spesa[1].num_persone
        /\ key = classificatore[1].groq_api_key
  /\ \E c \in {IF classificatore = <<>>
                 THEN ClassificatoreIngredienti(TRUE, key, cache_file)
                 ELSE classificatore[1]} :
       \E r \in {calcola_lista_spesa(csv, c, date_selezionate, num_persone, su, risposte)} :
         /\ classificatore' = <<r.c>>
         /\ cache_file' = IF r.salvata THEN save_cache(r.c) ELSE cache_file
         /\ spesa' = <<[date_selezionate |-> date_selezionate,
                        num_persone |-> num_persone, risultato |-> r.risultato]>>
  /\ spesa_prima' = spesa
  /\ UNCHANGED <<csv, esito>>
  /\ Fuori({"Csv", "Class", "Spesa"})

SpesaNext ==
  \E date_selezionate \in DateSpesa, num_persone \in 1..(2 * MaxPersone),
     su \in BOOLEAN, key \in BOOLEAN,
     risposte \in [{<<"E","d","a","m","a","m","e">>} -> Risposte] :
    ListaSpesa(date_selezionate, num_persone, su, key, risposte)

SpecSpesa == SpesaInit /\ [][SpesaNext]_vars

\* C1: when a list is computed again for the same dates and twice the
\* people, every ingredient whose quantity was numeric has exactly twice the
\* value, in the same base unit, and every ingredient that was as needed is
\* still as needed.
C1_DoublingDoubles ==
  (spesa # <<>> /\ spesa_prima # <<>>) =>
    LET voci(r) == {<<r[i].ingredienti[j].ingrediente, r[i].ingredienti[j].quantita>> :
                      <<i, j>> \in {p \in (1..Len(r)) \X (1..10) :
                                      p[2] <= Len(r[p[1]].ingredienti)}}
    IN \A v \in voci(spesa_prima[1].risultato) :
         \E w \in voci(spesa[1].risultato) :
           /\ w[1] = v[1]
           /\ parse_quantita(w[2])[2] = parse_quantita(v[2])[2]
           /\ parse_quantita(v[2])[2] # U_qb =>
                NumEq(parse_quantita(w[2])[1], NumMul(parse_quantita(v[2])[1], 2))

\* C3: the first list of a process, computed for 2025-01-06 and two people
\* on the three dishes of the scenario with no name answered from the
\* cache: Pasta 200 g, Riso 160 g, Pollo 300 g, Pane 4 and Tonno in scatola
\* 2 in the unit of a bare count; each of the five ingredients is in exactly
\* one category; the categories follow the fixed order and none is empty.
C3_Scenario ==
  (/\ csv = CsvScenario
   /\ spesa # <<>> /\ spesa_prima = <<>>
   /\ spesa[1].date_selezionate = <<<<"2","0","2","5","-","0","1","-","0","6">>>>
   /\ spesa[1].num_persone = 2
   /\ classificatore[1].stats.cache_hits = 0)
  => LET r == spesa[1].risultato
         posti(nome) == {p \in (1..Len(r)) \X (1..5) :
                           /\ p[2] <= Len(r[p[1]].ingredienti)
                           /\ r[p[1]].ingredienti[p[2]].ingrediente = nome}
         quantita(nome) == LET p == CHOOSE p \in posti(nome) : TRUE
                           IN r[p[1]].ingredienti[p[2]].quantita
         ordine(cat) == CHOOSE k \in 1..Len(ORDINE_CATEGORIE) : ORDINE_CATEGORIE[k] = cat
     IN /\ \A nome \in {<<"P","a","s","t","a">>, <<"R","i","s","o">>, <<"P","o","l","l","o">>, <<"P","a","n","e">>, <<"T","o","n","n","o"," ","i","n"," ","s","c","a","t","o","l","a">>} :
             Cardinality(posti(nome)) = 1
        /\ quantita(<<"P","a","s","t","a">>) = <<"2","0","0"," ","g">>
        /\ quantita(<<"R","i","s","o">>) = <<"1","6","0"," ","g">>
        /\ quantita(<<"P","o","l","l","o">>) = <<"3","0","0"," ","g">>
        /\ quantita(<<"P","a","n","e">>) = <<"4"," ","u","n","i","t","agrave">>
        /\ quantita(<<"T","o","n","n","o"," ","i","n"," ","s","c","a","t","o","l","a">>) = <<"2"," ","u","n","i","t","agrave">>
        /\ \A i \in 1..Len(r) :
             /\ r[i].ingredienti # <<>>
             /\ \E k \in 1..Len(ORDINE_CATEGORIE) : ORDINE_CATEGORIE[k] = r[i].categoria
             /\ \A j \in 1..(i - 1) : ordine(r[j].categoria) < ordine(r[i].categoria)
        /\ Len(r[1].ingredienti) + Len(r[Len(r)].ingredienti) = 5

\* the list of the scenario, with its two categories
C3_Witness ==
  /\ csv = CsvScenario
  /\ spesa # <<>> /\ spesa_prima = <<>>
  /\ spesa[1].date_selezionate = <<<<"2","0","2","5","-","0","1","-","0","6">>>>
  /\ spesa[1].num_persone = 2
  /\ classificatore[1].stats.cache_hits = 0
  /\ classificatore[1].stats.base_hits = 5
  /\ Len(spesa[1].risultato) = 2
  /\ spesa[1].risultato[1].categoria = "Macelleria e Pescheria"
  /\ spesa[1].risultato[2].categoria = "Dispensa e Cereali"

\* C13: in the list calcola_lista_spesa returns every ingredient name of the
\* dishes of the selected dates is in one category, once; the categories
\* follow the fixed order, none is empty, and the ingredients of a category
\* are in ascending order of name.
C13_OneCategoryInOrder ==
  spesa # <<>> =>
    LET r == spesa[1].risultato
        voci == voci_della_spesa(csv, spesa[1].date_selezionate)
        nomi == {voci[i][1] : i \in 1..Len(voci)}
        posti(nome) == {<<i, j>> \in (1..Len(r)) \X (1..Len(voci)) :
                          j <= Len(r[i].ingredienti) /\ r[i].ingredienti[j].ingrediente = nome}
        ordine(cat) == CHOOSE k \in 1..Len(ORDINE_CATEGORIE) : ORDINE_CATEGORIE[k] = cat
    IN /\ \A nome \in nomi : Cardinality(posti(nome)) = 1
       /\ \A i \in 1..Len(r) :
            /\ r[i].ingredienti # <<>>
            /\ \E k \in 1..Len(ORDINE_CATEGORIE) : ORDINE_CATEGORIE[k] = r[i].categoria
            /\ \A j \in 1..Len(r[i].ingredienti) : r[i].ingredienti[j].ingrediente \in nomi
            /\ \A j \in 1..(Len(r[i].ingredienti) - 1) :
                 minore(r[i].ingredienti[j].ingrediente, r[i].ingredienti[j + 1].ingrediente)
       /\ \A i \in 1..(Len(r) - 1) : ordine(r[i].categoria) < ordine(r[i + 1].categoria)

\* a list of two categories, one of them with three ingredients that were
\* not inserted in the order of their names
C13_Witness ==
  /\ spesa # <<>>
  /\ Len(spesa[1].risultato) = 2
  /\ \E i \in 1..2 :
       /\ Len(spesa[1].risultato[i].ingredienti) = 3
       /\ LET voci == voci_della_spesa(csv, spesa[1].date_selezionate)
              nomi == [j \in 1..3 |-> spesa[1].risultato[i].ingredienti[j].ingrediente]
              primo(nome) == CHOOSE h \in 1..Len(voci) :
                               voci[h][1] = nome /\ \A g \in 1..(h - 1) : voci[g][1] # nome
          IN primo(nomi[1]) > primo(nomi[2])

\* C19: every ingredient of every dish that load_menu_from_csv gives for a
\* selected date is in the list calcola_lista_spesa returns, whether the
\* dish has as many quantities as ingredients, fewer, or none; an ingredient
\* that only occurs where there is no quantity is listed as needed.
C19_EveryIngredientListed ==
  spesa # <<>> =>
    LET r == spesa[1].risultato
        date == spesa[1].date_selezionate
        piatti == UNION {LET menu == load_menu_from_csv(csv, date[d], TRUE)
                         IN {menu[i] : i \in 1..Len(menu)} : d \in 1..Len(date)}
        elencati == UNION {{r[i].ingredienti[j] : j \in 1..Len(r[i].ingredienti)} :
                           i \in 1..Len(r)}
        con_quantita(nome) == \E p \in piatti : \E idx \in 1..Len(p.ingredienti) :
                                p.ingredienti[idx] = nome /\ idx <= Len(p.quantita)
    IN \A p \in piatti : \A idx \in 1..Len(p.ingredienti) :
         \E e \in elencati :
           /\ e.ingrediente = p.ingredienti[idx]
           /\ ~con_quantita(p.ingredienti[idx]) => e.quantita = <<"q",".","b",".">>

(***************************************************************************)
(* SpecWeeks: the weeks and the dates of a week, asked of a data source     *)
(***************************************************************************)
MaxDate == 2

\* the dates of the rows, as they are written in the file
DateNote == {<<"3","0","/","1","2","/","2","0","2","4">>, <<"2","0","2","5","-","0","1","-","0","2">>, <<"0","1","/","0","1","/","2","0","2","4">>, <<"6","/","1","/","2","0","2","5">>, <<"2","0","2","5","-","0","1","-","0","9">>,
             <<"0","6",".","0","1",".","2","0","2","5">>}

\* a data source with one active dish for each date
CsvDelleDate(date) ==
  <<[fieldnames |-> FIELDNAMES,
     righe |-> [i \in 1..Len(date) |->
                  <<IntChars(i), date[i], <<"P">>, <<>>, <<"P">>, <<"5">>,
                    <<"S","I">>, <<>>, <<>>, <<>> >>]]>>

WeeksInit ==
  /\ csv \in {CsvDelleDate(date) : date \in UNION {[1..n -> DateNote] : n \in 0..MaxDate}}
  /\ risposta_http = <<>>
  /\ Altrove({"Csv", "Http"})

Settimane(username) ==
  /\ risposta_http' = <<get_settimane(csv, username)>>
  /\ UNCHANGED csv
  /\ Fuori({"Csv", "Http"})

DateDaSettimana(username, anno, settimana) ==
  /\ risposta_http' = <<get_date_da_settimana(csv, username, anno, settimana)>>
  /\ UNCHANGED csv
  /\ Fuori({"Csv", "Http"})

WeeksNext ==
  \/ \E username \in {None, "admin", "carla"} : Settimane(username)
  \/ \E username \in {None, "admin", "carla"}, anno \in {2024, 2025}, settimana \in {1, 2} :
       DateDaSettimana(username, anno, settimana)

SpecWeeks == WeeksInit /\ [][WeeksNext]_vars

\* C10: the listing of the weeks puts two available dates in the same group
\* exactly when they have the same ISO year and ISO week, and a group
\* carries that year and week (2024-12-30 and 2025-01-02 are in year 2025,
\* week 1); every date is in exactly one group and the groups are in
\* ascending order of (year, week).
C10_GroupsByIsoWeek ==
  (risposta_http # <<>> /\ risposta_http[1].status = 200) =>
    LET r == risposta_http[1]
        date == get_available_dates(csv)[1]
        iso(d) == isocalendar(int(split(d, "-")[1])[1], int(split(d, "-")[2])[1],
                              int(split(d, "-")[3])[1])
        dentro(d) == {i \in 1..Len(r.settimane) :
                        \E j \in 1..Len(r.settimane[i].date) : r.settimane[i].date[j] = d}
    IN IF "settimane" \in DOMAIN r
       THEN /\ \A k \in 1..Len(date) :
                 /\ Cardinality(dentro(date[k])) = 1
                 /\ \A i \in dentro(date[k]) :
                      <<r.settimane[i].anno, r.settimane[i].settimana>> = iso(date[k])
            /\ \A k, h \in 1..Len(date) :
                 (dentro(date[k]) = dentro(date[h])) <=> (iso(date[k]) = iso(date[h]))
            /\ \A i \in 1..Len(r.settimane) : r.settimane[i].date # <<>>
            /\ \A i \in 1..(Len(r.settimane) - 1) :
                 \/ r.settimane[i].anno < r.settimane[i + 1].anno
                 \/ /\ r.settimane[i].anno = r.settimane[i + 1].anno
                    /\ r.settimane[i].settimana < r.settimane[i + 1].settimana
       ELSE {r.date[i] : i \in 1..Len(r.date)}
              = {date[k] : k \in {h \in 1..Len(date) : iso(date[h]) = <<r.anno, r.settimana>>}}

(***************************************************************************)
(* app.py, genera_menu_settimanale: the weekly menu proposed to the admin  *)
(***************************************************************************)
\* lines 687-744, for the session of username, the day oggi of
\* datetime.now() as [anno, mese, giorno], the generator of line 703 and its
\* shuffles and draws.  The response is [status, menu, conteggi, valido]; a day of the
\* menu is [data, pranzo, cena], a dish of it [id, nome, categoria_proteica],
\* and the id is the text the generator read in the data source, which
\* jsonify writes as a JSON string: tipo "str".
genera_menu_settimanale(generator_, username, oggi, mescola_slot, mescola_piano, tiri) ==
  LET bisestile(y) == (y % 4 = 0 /\ y % 100 # 0) \/ y % 400 = 0
      giorni_mese(y, me) == IF me = 2 THEN (IF bisestile(y) THEN 29 ELSE 28)
                            ELSE IF me \in {4, 6, 9, 11} THEN 30 ELSE 31
      RECURSIVE prima_del_mese(_, _)
      prima_del_mese(y, me) == IF me = 1 THEN 0
                               ELSE prima_del_mese(y, me - 1) + giorni_mese(y, me - 1)
      \* date.toordinal(): day 1 is Monday 1 January of year 1
      toordinal(d) == 365 * (d.anno - 1) + (d.anno - 1) \div 4 - (d.anno - 1) \div 100
                        + (d.anno - 1) \div 400 + prima_del_mese(d.anno, d.mese) + d.giorno
      weekday(d) == (toordinal(d) - 1) % 7
      fromordinal(n) ==
        CHOOSE d \in [anno : {oggi.anno, oggi.anno + 1},
                      mese : {oggi.mese, (oggi.mese % 12) + 1}, giorno : 1..31] :
          d.giorno <= giorni_mese(d.anno, d.mese) /\ toordinal(d) = n
      due(n) == <<Cifre[(n \div 10) + 1], Cifre[(n % 10) + 1]>>
      strftime(d) == IntChars(d.anno) \o <<"-">> \o due(d.mese) \o <<"-">> \o due(d.giorno)
      voce(p) == [id |-> [tipo |-> "str", valore |-> DigitsToNat(p.id)],
                  nome |-> p.nome, categoria_proteica |-> p.categoria_proteica]
      errore(s) == [status |-> s, menu |-> <<>>, conteggi |-> EmptyMap, valido |-> FALSE]
  IN IF username # "admin" THEN errore(401)
     ELSE Con(genera_settimana_intelligente(generator_, mescola_slot,
                                            mescola_piano, tiri), LAMBDA r :
          IF r.eccezione # None THEN errore(500)
          ELSE Con(toordinal(oggi) - weekday(oggi) + 7, LAMBDA lunedi_prossimo :
            [status |-> 200,
             menu |-> [idx \in 1..7 |->
                         [data |-> strftime(fromordinal(lunedi_prossimo + idx - 1)),
                          pranzo |-> voce(r.menu_settimana[idx].pranzo[1]),
                          cena |-> voce(r.menu_settimana[idx].cena[1])]],
             conteggi |-> r.conteggi, valido |-> r.valido]))

(***************************************************************************)
(* SpecCommit: weekly menus committed to a data source                      *)
(***************************************************************************)
MaxGiorni == 1
MaxRighe == 4

\* the second line has a field beyond the ten columns
CsvRigaLunga ==
  <<[fieldnames |-> FIELDNAMES,
     righe |-> <<
       <<<<"1">>, <<"0","6","/","0","1","/","2","0","2","5">>, <<"O","r","a","t","a">>, <<>>, <<"S","e","c","o","n","d","o">>, <<"5">>, <<"S","I">>, <<>>, <<"O","r","a","t","a">>, <<"1","5","0","g">>>>,
       <<<<"2">>, <<"0","6","/","0","1","/","2","0","2","5">>, <<"P","o","l","l","o">>, <<>>, <<"S","e","c","o","n","d","o">>, <<"5">>, <<"S","I">>, <<>>, <<"P","o","l","l","o">>, <<"1","5","0","g">>, <<"x">>>>>>]>>

\* days of a generated menu: dishes 1 and 2, a dish that is not in the data
\* source, the ids as strings, a date that is not ISO
GiorniNoti ==
  {[data |-> <<"2","0","2","5","-","0","1","-","1","3">>, pranzo |-> [id |-> [tipo |-> "int", valore |-> 1]], cena |-> [id |-> [tipo |-> "int", valore |-> 2]]],
   [data |-> <<"2","0","2","5","-","0","1","-","1","4">>, pranzo |-> [id |-> [tipo |-> "int", valore |-> 9]], cena |-> [id |-> [tipo |-> "int", valore |-> 1]]],
   [data |-> <<"2","0","2","5","-","0","1","-","1","5">>, pranzo |-> [id |-> [tipo |-> "str", valore |-> 1]], cena |-> [id |-> [tipo |-> "str", valore |-> 2]]],
   [data |-> <<"1","3","/","0","1","/","2","0","2","5">>, pranzo |-> [id |-> [tipo |-> "int", valore |-> 2]], cena |-> [id |-> [tipo |-> "int", valore |-> 9]]]}

CommitInit ==
  /\ csv \in {CsvTre, CsvRigaCorta, CsvRigaLunga, CsvVuoto, NoFile}
  /\ risposta_http = <<>>
  /\ Altrove({"Csv", "Http"})

Salva(username, menu) ==
  /\ IF csv = NoFile THEN TRUE ELSE Len(csv[1].righe) <= MaxRighe
  /\ LET r == salva_menu_settimanale(csv, username, menu)
     IN /\ csv' = r.file
        /\ risposta_http' = <<[status |-> r.status, piatti_aggiunti |-> r.piatti_aggiunti]>>
  /\ Fuori({"Csv", "Http"})

CommitNext ==
  \E username \in {None, "admin", "carla"},
     menu \in UNION {[1..n -> GiorniNoti] : n \in 0..MaxGiorni} :
    Salva(username, menu)

SpecCommit == CommitInit /\ [][CommitNext]_vars

\* C8: a commit that succeeds leaves every row the data source had, as the
\* reader gives it, in its place with all its fields unchanged, and what
\* follows them are the reported new rows, each the row of a dish of the
\* data source with only id and data replaced.
C8_CommitAdditiveOnly ==
  [][(risposta_http' # <<>> /\ risposta_http'[1].status = 200) =>
       LET prima == DictReader(csv[1])
           dopo == DictReader(csv'[1])
           n == risposta_http'[1].piatti_aggiunti
       IN /\ csv'[1].fieldnames = csv[1].fieldnames
          /\ Len(dopo) = Len(prima) + n
          /\ \A i \in 1..Len(prima) : dopo[i] = prima[i]
          /\ \A j \in (Len(prima) + 1)..Len(dopo) :
               \E i \in 1..Len(prima) :
                 \A k \in DOMAIN prima[i] \ {"id", "data"} :
                   k \in DOMAIN dopo[j] /\ dopo[j][k] = prima[i][k]]_vars

\* C23: when the ids of the data source are pairwise distinct positive
\* integers, they are so after a commit, and every row the commit appended
\* has an id greater than every id the source had before, the appended rows
\* having ids different from one another.
C23_IdsStayDistinct ==
  [][LET ids(f) == IF f = NoFile THEN <<>>
                   ELSE [i \in 1..Len(DictReader(f[1])) |-> int(DictReader(f[1])[i].id)]
         distinti(f) == /\ f # NoFile
                        /\ \A i \in 1..Len(ids(f)) : ids(f)[i] # <<>> /\ ids(f)[i][1] > 0
                        /\ \A i, j \in 1..Len(ids(f)) : i # j => ids(f)[i] # ids(f)[j]
     IN distinti(csv) =>
          /\ distinti(csv')
          /\ \A j \in (Len(ids(csv)) + 1)..Len(ids(csv')) :
               \A i \in 1..Len(ids(csv)) : ids(csv')[j][1] > ids(csv)[i][1]]_vars

\* a commit that appended two rows, with ids 4 and 5, to a source of ids 1..3
C23_Witness ==
  /\ risposta_http # <<>>
  /\ risposta_http[1].status = 200
  /\ risposta_http[1].piatti_aggiunti = 2
  /\ Len(csv[1].righe) = 5
  /\ csv[1].righe[3][1] = <<"3">>
  /\ csv[1].righe[4][1] = <<"4">>
  /\ csv[1].righe[5][1] = <<"5">>

(***************************************************************************)
(* SpecCorsa: requests of salva_menu_settimanale served at the same time.  *)
(* A request reads the whole data source (lines 807-813) and later writes  *)
(* the whole data source (lines 860-864), each taken as one step; nothing  *)
(* in the route keeps another request from running between the two.        *)
(***************************************************************************)
MaxRichieste == 2

\* commit[p] is the request p of the admin: its fase ("da_fare", "letto",
\* "scritto"), the content it read, its menu, whether no other request was
\* between its read and its write at any time from its read to its write
\* (sola), the status of its response and the lines it appended.
CorsaInit ==
  /\ csv \in {CsvTre, CsvRigaCorta, NoFile}
  /\ commit = [p \in 1..MaxRichieste |->
                 [fase |-> "da_fare", file |-> NoFile, menu |-> <<>>, sola |-> TRUE,
                  status |-> 0, scritte |-> <<>>]]
  /\ Altrove({"Csv", "Commit"})

\* a read that is given the content an earlier request read
LeggeVecchio(p, menu) ==
  /\ commit[p].fase = "da_fare"
  /\ commit' = [q \in 1..MaxRichieste |->
                  IF q = p
                  THEN [commit[p] EXCEPT
                          !.fase = "letto",
                          !.file = IF \E o \in 1..MaxRichieste : commit[o].fase = "scritto"
                                   THEN commit[CHOOSE o \in 1..MaxRichieste :
                                                 commit[o].fase = "scritto"].file
                                   ELSE csv,
                          !.menu = menu,
                          !.sola = \A o \in 1..MaxRichieste : commit[o].fase # "letto"]
                  ELSE IF commit[q].fase = "letto" THEN [commit[q] EXCEPT !.sola = FALSE]
                  ELSE commit[q]]
  /\ UNCHANGED csv
  /\ Fuori({"Csv", "Commit"})

\* lines 807-813: request p, with a menu, reads the data source
Legge(p, menu) ==
  /\ commit[p].fase = "da_fare"
  /\ commit' = [q \in 1..MaxRichieste |->
                  IF q = p
                  THEN [commit[p] EXCEPT
                          !.fase = "letto", !.file = csv, !.menu = menu,
                          !.sola = \A o \in 1..MaxRichieste : commit[o].fase # "letto"]
                  ELSE IF commit[q].fase = "letto" THEN [commit[q] EXCEPT !.sola = FALSE]
                  ELSE commit[q]]
  /\ UNCHANGED csv
  /\ Fuori({"Csv", "Commit"})

\* lines 815-870: request p makes its rows from what it read and writes the
\* data source; a request that raised before line 861 writes nothing
ScriveCommit(p) ==
  /\ commit[p].fase = "letto"
  /\ \E r \in {salva_menu_settimanale(commit[p].file, "admin", commit[p].menu)} :
       /\ csv' = IF r.status = 200 \/ r.file # commit[p].file THEN r.file ELSE csv
       /\ commit' = [commit EXCEPT
                       ![p].fase = "scritto",
                       ![p].status = r.status,
                       ![p].scritte =
                         IF r.status = 200
                         THEN SubSeq(r.file[1].righe, Len(DictReader(commit[p].file[1])) + 1,
                                     Len(r.file[1].righe))
                         ELSE <<>>]
  /\ Fuori({"Csv", "Commit"})

CorsaNext ==
  \/ \E p \in 1..MaxRichieste, menu \in [1..1 -> GiorniNoti] : Legge(p, menu)
  \/ \E p \in 1..MaxRichieste : ScriveCommit(p)

SpecCorsa == CorsaInit /\ [][CorsaNext]_vars

\* C27: when the commits ran one after the other (none read the data source
\* while another was between its read and its write), the data source holds
\* the lines every one of them appended and no two of its rows have the
\* same id; commits that overlap can leave a data source without the lines
\* one of them appended.
C27_OneAfterTheOther ==
  (\A p \in 1..MaxRichieste : commit[p].fase = "scritto" /\ commit[p].sola) =>
    /\ \A p \in 1..MaxRichieste : \A k \in 1..Len(commit[p].scritte) :
         \E i \in 1..Len(csv[1].righe) : csv[1].righe[i] = commit[p].scritte[k]
    /\ csv # NoFile =>
         \A i, j \in 1..Len(csv[1].righe) :
           i # j => int(csv[1].righe[i][1]) # int(csv[1].righe[j][1])

\* two commits that overlapped and both answered 200 with rows appended: the
\* data source lacks a line one of them appended
C27_Witness ==
  /\ \A p \in 1..MaxRichieste :
       commit[p].fase = "scritto" /\ commit[p].status = 200 /\ commit[p].scritte # <<>>
  /\ \E p \in 1..MaxRichieste : ~commit[p].sola
  /\ \E p \in 1..MaxRichieste : \E k \in 1..Len(commit[p].scritte) :
       \A i \in 1..Len(csv[1].righe) : csv[1].righe[i] # commit[p].scritte[k]

\* two commits, one after the other, that both appended rows
C27_Sequential ==
  /\ \A p \in 1..MaxRichieste :
       commit[p].fase = "scritto" /\ commit[p].sola /\ commit[p].scritte # <<>>

(***************************************************************************)
(* SpecPiano: the admin asks for a weekly menu and commits the menu of the  *)
(* response as it is                                                       *)
(***************************************************************************)
PianoInit ==
  /\ csv \in {CsvCompleto, CsvTre, CsvVuoto, NoFile}
  /\ risposta_http = <<>>
  /\ Altrove({"Csv", "Http"})

\* generator_ is MenuGenerator(CSV_FILE), built by the request
GeneraMenuSettimanale(generator_, username, oggi, mescola_slot, mescola_piano, t) ==
  /\ risposta_http' = <<genera_menu_settimanale(generator_, username, oggi,
                                                mescola_slot, mescola_piano, Tiri(t))>>
  /\ UNCHANGED csv
  /\ Fuori({"Csv", "Http"})

\* the request of salva_menu_settimanale holds the menu of the last response
SalvaPiano ==
  /\ risposta_http # <<>>
  /\ "menu" \in DOMAIN risposta_http[1]
  /\ risposta_http[1].status = 200
  /\ \E r \in {salva_menu_settimanale(csv, "admin", risposta_http[1].menu)} :
       /\ csv' = r.file
       /\ risposta_http' = <<[status |-> r.status, piatti_aggiunti |-> r.piatti_aggiunti]>>
  /\ Fuori({"Csv", "Http"})

PianoNext ==
  \/ \E generator_ \in {MenuGenerator(csv)} :
       \/ \E oggi \in {[anno |-> 2025, mese |-> 1, giorno |-> 22],
                       [anno |-> 2025, mese |-> 12, giorno |-> 22]},
             g1 \in 0..MaxGiro, r1 \in BOOLEAN, g2 \in 0..MaxGiro, r2 \in BOOLEAN,
             t \in {<<0, 0>>, <<MaxBlocco, MaxBlocco>>} :
            GeneraMenuSettimanale(generator_, "admin", oggi, Mescola(g1, r1),
                                  Mescola(g2, r2), t)
       \/ GeneraMenuSettimanale(generator_, "carla",
                                [anno |-> 2025, mese |-> 1, giorno |-> 22],
                                Mescola(0, FALSE), Mescola(0, FALSE), <<0, 0>>)
  \/ SalvaPiano

SpecPiano == PianoInit /\ [][PianoNext]_vars

\* C22: the menu of a response of genera_menu_settimanale, committed as it
\* is, adds one row for each of its 14 slots, and after the commit
\* load_menu_from_csv on each of the seven dates of the menu returns the
\* dish of pranzo and the dish of cena of that day.
C22_PlanCommitted ==
  [][SalvaPiano =>
       LET menu == risposta_http[1].menu
       IN /\ risposta_http'[1].status = 200
          /\ risposta_http'[1].piatti_aggiunti = 14
          /\ Len(csv'[1].righe) = Len(csv[1].righe) + 14
          /\ \A g \in 1..7 :
               LET piatti == load_menu_from_csv(csv', menu[g].data, FALSE)
               IN /\ Len(piatti) = 2
                  /\ piatti[1].nome = menu[g].pranzo.nome
                  /\ piatti[2].nome = menu[g].cena.nome]_vars

(***************************************************************************)
(* SpecFun: one call of a function on arguments drawn from a pool          *)
(***************************************************************************)
MaxRigheMenu == 2
MaxIngredienti == 3

\* the arguments of calcola_settimana: the texts AAAA-MM-GG and GG/MM/AAAA of
\* days, of the calendar or not, other texts, and None.  The arguments of
\* load_menu_from_csv: a date and the flag, for a data source of at most
\* MaxRigheMenu well-formed rows.  The arguments of somma_quantita: two
\* quantity texts and the side a decimal tie is rounded to.  The argument of
\* identifica_categoria_proteica: at most MaxIngredienti ingredients, joined
\* with "|" in every order.
FunInit ==
  LET DueCifre(n) == <<Cifre[(n \div 10) + 1], Cifre[(n % 10) + 1]>>
      TestiDiDate ==
        UNION {{IntChars(a) \o <<"-">> \o DueCifre(me) \o <<"-">> \o DueCifre(g),
                DueCifre(g) \o <<"/">> \o DueCifre(me) \o <<"/">> \o IntChars(a)} :
               a \in {2020, 2021, 2024, 2025, 2026}, me \in {1, 2, 12},
               g \in {1, 3, 6, 13, 28, 29, 30, 31}}
      TestiVari ==
       {NoneText,
       <<"2","0","2","5","-","0","1","-","1","3","-","x","x">>,  \* '2025-01-13-xx'
       <<"2","0","2","5","-","0","1","-","1","3","-">>,  \* '2025-01-13-'
       <<"1","3","/","0","1","/","2","0","2","5","/","9">>,  \* '13/01/2025/9'
       <<"2","0","2","5","/","0","1","/","1","3">>,  \* '2025/01/13'
       <<"2","0","2","5",".","0","1",".","0","6">>,  \* '2025.01.06'
       <<"a","b","c">>,  \* 'abc'
       <<>>,  \* ''
       <<"2","0","2","5","-","0","1">>,  \* '2025-01'
       <<"1","3","-","0","1","-","2","0","2","5">>,  \* '13-01-2025'
       <<"1","3","/","0","1","/","2","5">>,  \* '13/01/25'
       <<"6","/","1","/","2","0","2","5">>,  \* '6/1/2025'
       <<" ","2","0","2","5","-","0","1","-","0","6"," ">>,  \* ' 2025-01-06 '
       <<"2","0","2","5","-","1","-","6">>,  \* '2025-1-6'
       <<"2","0","2","5","0","1","0","6">>  \* '20250106'
       }
      IngredientiProteici ==
        {<<"P","o","l","l","o">>,
         <<"C","e","c","i">>,
         <<"T","o","n","n","o"," ","i","n"," ","s","c","a","t","o","l","a">>,
         <<"t","o","n","n","o"," ","f","r","e","s","c","o">>,
         <<"S","a","l","m","o","n","e"," ","a","f","f","u","m","i","c","a","t","o">>,
         <<"P","a","s","t","a">>,
         <<" ","U","O","V","A"," ">>,
         <<"P","e","t","t","o"," ","d","i"," ","T","a","c","c","h","i","n","o">>,
         <<>>}
      DateMenu == {<<"0","6","/","0","1","/","2","0","2","5">>, <<"2","0","2","5","-","0","1","-","0","6">>, <<"7","/","1","/","2","0","2","5">>}
      Attivi == {<<"S","I">>, <<"s","i">>, <<"S","i">>, <<"N","O">>}
      Ingredienti == {<<<<>>, <<>> >>, <<<<"P","a","s","t","a","|","T","o","n","n","o">>, <<"8","0","g","|","1"," ","s","c","a","t","o","l","a">>>>}
      RigaMenu(id, r) ==
        <<IntChars(id), r[1], <<"P","a","s","t","a">>, <<>>, <<"P","r","i","m","i">>, <<"5">>, r[2], <<>>, r[3][1], r[3][2]>>
  IN /\ \/ /\ argomenti \in {[funzione |-> "calcola_settimana", data_str |-> t] :
                               t \in TestiDiDate \cup TestiVari}
           /\ csv = NoFile
        \/ /\ argomenti \in {[funzione |-> "somma_quantita", q1_str |-> q1, q2_str |-> q2,
                                su |-> su] : q1 \in QtyTexts, q2 \in QtyTexts, su \in BOOLEAN}
           /\ csv = NoFile
        \/ /\ argomenti \in {[funzione |-> "identifica_categoria_proteica", ingredienti |-> l] :
                               l \in UNION {[1..n -> IngredientiProteici] : n \in 0..MaxIngredienti}}
           /\ csv = NoFile
        \/ /\ argomenti \in {[funzione |-> "load_menu_from_csv", data_richiesta |-> d,
                                include_ingredienti |-> inc] :
                               d \in {<<"2","0","2","5","-","0","1","-","0","6">>, <<"2","0","2","5","-","0","1","-","0","7">>, <<"2","0","2","5","-","0","1","-","0","8">>}, inc \in BOOLEAN}
           /\ csv \in UNION {{<<[fieldnames |-> FIELDNAMES,
                                  righe |-> [i \in 1..n |-> RigaMenu(i, scelta[i])]]>> :
                                scelta \in [1..n -> DateMenu \X Attivi \X Ingredienti]} :
                              n \in 0..MaxRigheMenu}
     /\ reso = <<>>
     /\ Altrove({"Csv", "Fun"})

CalcolaSettimana ==
  /\ reso = <<>> /\ argomenti.funzione = "calcola_settimana"
  /\ reso' = <<calcola_settimana(argomenti.data_str)>>
  /\ UNCHANGED <<argomenti, csv>>
  /\ Fuori({"Csv", "Fun"})

\* load_menu_from_csv, lines 183-255: the keys piatti and date_disponibili
\* of the dict it returns (date_disponibili is <<>> when the dict has the
\* key error instead)
CaricaMenu ==
  /\ reso = <<>> /\ argomenti.funzione = "load_menu_from_csv"
  /\ reso' = <<[piatti |-> load_menu_from_csv(csv, argomenti.data_richiesta,
                                              argomenti.include_ingredienti),
                date_disponibili |-> get_available_dates(csv)]>>
  /\ UNCHANGED <<argomenti, csv>>
  /\ Fuori({"Csv", "Fun"})

SommaQuantita ==
  /\ reso = <<>> /\ argomenti.funzione = "somma_quantita"
  /\ reso' = <<somma_quantita(argomenti.q1_str, argomenti.q2_str, argomenti.su)>>
  /\ UNCHANGED <<argomenti, csv>>
  /\ Fuori({"Csv", "Fun"})

RECURSIVE unisci(_, _)
unisci(lista, sep) ==
  IF lista = <<>> THEN <<>>
  ELSE IF Len(lista) = 1 THEN lista[1]
  ELSE lista[1] \o <<sep>> \o unisci(Tail(lista), sep)

IdentificaCategoria ==
  /\ reso = <<>> /\ argomenti.funzione = "identifica_categoria_proteica"
  /\ LET l == argomenti.ingredienti
         n == Len(l)
     IN reso' = <<[categoria |-> identifica_categoria_proteica(unisci(l, "|")),
                   in_altro_ordine |->
                     {identifica_categoria_proteica(unisci([i \in 1..n |-> l[p[i]]], "|")) :
                        p \in Permutations(1..n)}]>>
  /\ UNCHANGED <<argomenti, csv>>
  /\ Fuori({"Csv", "Fun"})

FunNext ==
  \/ CalcolaSettimana
  \/ IdentificaCategoria
  \/ CaricaMenu
  \/ SommaQuantita

SpecFun == FunInit /\ [][FunNext]_vars

\* C11: for a text AAAA-MM-GG or GG/MM/AAAA of a day of the calendar
\* calcola_settimana returns the ISO-8601 week of that day; for a malformed
\* text it returns 1.  The texts that differ from the two forms only by
\* blanks around them or by a day or month of one digit are left open.
C11_IsoWeekOrOne ==
  (reso # <<>> /\ argomenti.funzione = "calcola_settimana") =>
    LET cifre(t) == t # <<>> /\ \A i \in 1..Len(t) : IsDigit(t[i])
        forma(t, sep, l1, l2, l3) ==
          /\ t # NoneText
          /\ Len(split(t, sep)) = 3
          /\ \A i \in 1..3 : cifre(split(t, sep)[i])
          /\ Len(split(t, sep)[1]) \in l1
          /\ Len(split(t, sep)[2]) \in l2
          /\ Len(split(t, sep)[3]) \in l3
        num(t, sep, i) == DigitsToNat(split(t, sep)[i])
        t == argomenti.data_str
        iso == forma(t, "-", {4}, {2}, {2})
        ita == forma(t, "/", {2}, {2}, {4})
        larga == /\ t # NoneText
                 /\ \/ forma(strip(t), "-", {4}, {1, 2}, {1, 2})
                    \/ forma(strip(t), "/", {1, 2}, {1, 2}, {4})
        giorno == IF iso THEN isocalendar(num(t, "-", 1), num(t, "-", 2), num(t, "-", 3))
                  ELSE IF ita THEN isocalendar(num(t, "/", 3), num(t, "/", 2), num(t, "/", 1))
                  ELSE <<>>
    IN IF giorno # <<>> THEN reso[1] = giorno[2]
       ELSE IF larga /\ ~iso /\ ~ita THEN TRUE
       ELSE reso[1] = 1

\* C12: on a data source of well-formed rows load_menu_from_csv(D, inc)
\* returns the rows whose date, brought from GG/MM/AAAA to AAAA-MM-GG, is D
\* and whose attivo is SI in any case, in the order of the source; the
\* available dates are the normalized dates of all the rows, each once, in
\* ascending order; a returned dish has ingredients or quantities only when
\* inc is true.
C12_MenuOfDate ==
  (reso # <<>> /\ argomenti.funzione = "load_menu_from_csv") =>
    LET righe == csv[1].righe
        due(t) == IF Len(t) = 1 THEN <<"0">> \o t ELSE t
        canonica(t) == IF Len(split(t, "/")) = 3
                       THEN split(t, "/")[3] \o <<"-">> \o due(split(t, "/")[2])
                              \o <<"-">> \o due(split(t, "/")[1])
                       ELSE t
        attese == SelectSeq([i \in 1..Len(righe) |-> i], LAMBDA i :
                    /\ canonica(righe[i][2]) = argomenti.data_richiesta
                    /\ lower(righe[i][7]) = <<"s","i">>)
        r == reso[1]
        date == r.date_disponibili[1]
    IN /\ Len(r.piatti) = Len(attese)
       /\ \A k \in 1..Len(attese) :
            /\ r.piatti[k].id = attese[k]
            /\ r.piatti[k].nome = righe[attese[k]][3]
            /\ (r.piatti[k].ingredienti # <<>> \/ r.piatti[k].quantita # <<>>)
                  => argomenti.include_ingredienti
       /\ r.date_disponibili # <<>>
       /\ {date[i] : i \in 1..Len(date)} = {canonica(righe[i][2]) : i \in 1..Len(righe)}
       /\ \A i \in 1..(Len(date) - 1) : minore(date[i], date[i + 1])

\* a call with inc true that returns the second of two rows only, with its
\* lists, the first row being of the same day and not active
C12_Witness ==
  /\ reso # <<>> /\ argomenti.funzione = "load_menu_from_csv"
  /\ argomenti.include_ingredienti
  /\ Len(csv[1].righe) = 2
  /\ csv[1].righe[1][7] = <<"N","O">>
  /\ Len(reso[1].piatti) = 1
  /\ reso[1].piatti[1].id = 2
  /\ Len(reso[1].piatti[1].ingredienti) = 2
  /\ Len(reso[1].date_disponibili[1]) = 2

\* C14: the sum of a quantity q and an as-needed quantity, in either order,
\* is q as format(parse(q)) writes it; the sum of two as-needed quantities
\* is as-needed.
C14_SumWithAsNeeded ==
  (reso # <<>> /\ argomenti.funzione = "somma_quantita") =>
    LET q1 == argomenti.q1_str
        q2 == argomenti.q2_str
        qb(q) == parse_quantita(q)[2] = U_qb
        f(q) == formatta_quantita(parse_quantita(q)[1], parse_quantita(q)[2], argomenti.su)
    IN /\ qb(q2) => reso[1] = f(q1)
       /\ qb(q1) => reso[1] = f(q2)
       /\ (qb(q1) /\ qb(q2)) => reso[1] = <<"q",".","b",".">>

\* the sum of an as-needed quantity and a quantity that format(parse(.))
\* rewrites
C14_Witness ==
  /\ reso # <<>> /\ argomenti.funzione = "somma_quantita"
  /\ parse_quantita(argomenti.q1_str)[2] = U_qb
  /\ parse_quantita(argomenti.q2_str)[2] = U_g
  /\ reso[1] # argomenti.q2_str
  /\ reso[1] # <<"q",".","b",".">>

\* C15: the category returned is the first of CATEGORIE_PROTEINE, in the order
\* of the table, that has a keyword inside some lowercased ingredient, and none
\* when no category has one; every order of the ingredients gives the same
\* category.
C15_FirstCategoryOfTable ==
  (reso # <<>> /\ argomenti.funzione = "identifica_categoria_proteica") =>
    LET l == argomenti.ingredienti
        ha(k) == \E i \in 1..Len(l), j \in 1..Len(CATEGORIE_PROTEINE[k].keywords) :
                   Contains(lower(l[i]), CATEGORIE_PROTEINE[k].keywords[j])
        K == {k \in 1..Len(CATEGORIE_PROTEINE) : ha(k)}
    IN /\ K = {} => reso[1].categoria = None
       /\ K # {} => reso[1].categoria =
                      CATEGORIE_PROTEINE[CHOOSE k \in K : \A h \in K : k <= h].categoria
       /\ reso[1].in_altro_ordine = {reso[1].categoria}

\* a list whose first ingredient is of a category later in the table than the
\* category of a later ingredient
C15_Witness ==
  /\ reso # <<>> /\ argomenti.funzione = "identifica_categoria_proteica"
  /\ Len(argomenti.ingredienti) >= 2
  /\ Contains(lower(argomenti.ingredienti[1]), <<"p","o","l","l","o">>)
  /\ Contains(lower(argomenti.ingredienti[2]), <<"c","e","c","i">>)
  /\ reso[1].categoria = "legumi"

(***************************************************************************)
(* SpecRighe: load_menu_from_csv on data sources with unreadable rows      *)
(***************************************************************************)
MaxRigheLette == 3

\* the rows of the data sources:
\*   1;06/01/2025;Orata;;Secondo;5;SI;;Orata;150g: a well-formed active row of 06/01/2025
\*   2;07/01/2025;Pollo;;Secondo;5.50;si;;Pollo;150g: a well-formed active row of 07/01/2025
\*   3;06/01/2025;Manzo;;Secondo;5;NO;;Manzo;150g: a well-formed row that is not active
\*   4: the id alone
\*   5;07/01/2025: id and date alone
\*   6;06/01/2025;Ceci;;Secondo;5;SI: the fields up to attivo
\*   x;06/01/2025;Grana;;Secondo;5;SI;;Grana;30g: an id that is not a number
\*   8;06/01/2025;Uova;;Secondo;cinque;SI;;Uova;2: a price that is not a number
RigheNote ==
  {
     <<<<"1">>, <<"0","6","/","0","1","/","2","0","2","5">>, <<"O","r","a","t","a">>, <<>>, <<"S","e","c","o","n","d","o">>, <<"5">>, <<"S","I">>, <<>>, <<"O","r","a","t","a">>, <<"1","5","0","g">>>>,
     <<<<"2">>, <<"0","7","/","0","1","/","2","0","2","5">>, <<"P","o","l","l","o">>, <<>>, <<"S","e","c","o","n","d","o">>, <<"5",".","5","0">>, <<"s","i">>, <<>>, <<"P","o","l","l","o">>, <<"1","5","0","g">>>>,
     <<<<"3">>, <<"0","6","/","0","1","/","2","0","2","5">>, <<"M","a","n","z","o">>, <<>>, <<"S","e","c","o","n","d","o">>, <<"5">>, <<"N","O">>, <<>>, <<"M","a","n","z","o">>, <<"1","5","0","g">>>>,
     <<<<"4">>>>,
     <<<<"5">>, <<"0","7","/","0","1","/","2","0","2","5">>>>,
     <<<<"6">>, <<"0","6","/","0","1","/","2","0","2","5">>, <<"C","e","c","i">>, <<>>, <<"S","e","c","o","n","d","o">>, <<"5">>, <<"S","I">>>>,
     <<<<"x">>, <<"0","6","/","0","1","/","2","0","2","5">>, <<"G","r","a","n","a">>, <<>>, <<"S","e","c","o","n","d","o">>, <<"5">>, <<"S","I">>, <<>>, <<"G","r","a","n","a">>, <<"3","0","g">>>>,
     <<<<"8">>, <<"0","6","/","0","1","/","2","0","2","5">>, <<"U","o","v","a">>, <<>>, <<"S","e","c","o","n","d","o">>, <<"c","i","n","q","u","e">>, <<"S","I">>, <<>>, <<"U","o","v","a">>, <<"2">>>>}

RigheInit ==
  /\ argomenti \in {[funzione |-> "load_menu_from_csv", data_richiesta |-> d,
                     include_ingredienti |-> inc] :
                    d \in {<<"2","0","2","5","-","0","1","-","0","6">>, <<"2","0","2","5","-","0","1","-","0","7">>}, inc \in BOOLEAN}
  /\ csv \in {NoFile} \cup
             UNION {{<<[fieldnames |-> FIELDNAMES, righe |-> righe]>> :
                       righe \in [1..n -> RigheNote]} : n \in 0..MaxRigheLette}
  /\ reso = <<>>
  /\ Altrove({"Csv", "Fun"})

RigheNext == CaricaMenu

SpecRighe == RigheInit /\ [][RigheNext]_vars

\* C24: load_menu_from_csv skips an unreadable row (shorter than the header,
\* or with an id or a price that is not a number) on its own: on a data
\* source that exists the result is not an error result, its dishes are the
\* well-formed active rows of the date in the order of the source, and its
\* available dates hold the date of every well-formed row; a data source
\* that does not exist gives the error result, with no dish.
C24_BadRowSkippedAlone ==
  (reso # <<>> /\ argomenti.funzione = "load_menu_from_csv") =>
    IF csv = NoFile
    THEN reso[1].date_disponibili = <<>> /\ reso[1].piatti = <<>>
    ELSE LET righe == csv[1].righe
             ben_formata(riga) == /\ Len(riga) = Len(FIELDNAMES)
                                  /\ int(riga[1]) # <<>>
                                  /\ float(riga[6]) # <<>>
             attese == SelectSeq([i \in 1..Len(righe) |-> i], LAMBDA i :
                         /\ ben_formata(righe[i])
                         /\ converti_data_italiana(righe[i][2]) = argomenti.data_richiesta
                         /\ upper(strip(righe[i][7])) = <<"S","I">>)
         IN /\ reso[1].date_disponibili # <<>>
            /\ Len(reso[1].piatti) = Len(attese)
            /\ \A k \in 1..Len(attese) :
                 /\ reso[1].piatti[k].id = int(righe[attese[k]][1])[1]
                 /\ reso[1].piatti[k].nome = righe[attese[k]][3]
            /\ \A i \in 1..Len(righe) :
                 ben_formata(righe[i]) =>
                   \E j \in 1..Len(reso[1].date_disponibili[1]) :
                     reso[1].date_disponibili[1][j] = converti_data_italiana(righe[i][2])

(***************************************************************************)
(* SpecDisco: the data source validated, restored and rewritten as the     *)
(* clock advances                                                          *)
(***************************************************************************)
MaxSecondi == 1
MaxScritture == 2

\* the contents the data source is given
FileNoti ==
  {
     \* every row valid
     <<[fieldnames |-> <<"id", "data", "nome", "descrizione", "categoria", "prezzo", "attivo", "ricetta", "ingredienti", "quantita">>,
        righe |-> <<<<<<"1">>, <<"0","6","/","0","1","/","2","0","2","5">>, <<"O","r","a","t","a">>, <<>>, <<"S","e","c","o","n","d","i">>, <<"5">>, <<"S","I">>, <<>>, <<"O","r","a","t","a">>, <<"1","5","0","g">>>>,
          <<<<"2">>, <<"2","0","2","5","-","0","1","-","0","7">>, <<"P","o","l","l","o">>, <<>>, <<"S","e","c","o","n","d","i">>, <<"5",".","5","0">>, <<"n","o">>, <<>>, <<"P","o","l","l","o">>, <<>>>>>>]>>,
     \* rows to discard among valid rows, a blank line, and a row whose only
     \* defect is an attivo that is neither SI nor NO
     <<[fieldnames |-> <<"id", "data", "nome", "descrizione", "categoria", "prezzo", "attivo", "ricetta", "ingredienti", "quantita">>,
        righe |-> <<<<<<"1">>, <<"0","6","/","0","1","/","2","0","2","5">>, <<"O","r","a","t","a">>, <<>>, <<"S","e","c","o","n","d","i">>, <<"5">>, <<"S","I">>, <<>>, <<"O","r","a","t","a">>, <<"1","5","0","g">>>>,
          <<<<"x">>, <<>>, <<" ">>, <<>>, <<"S","e","c","o","n","d","i">>, <<"5",",","5","0">>, <<"b","o","h">>, <<>>, <<"P","o","l","l","o">>, <<>>>>,
          <<>>,
          <<<<"0">>, <<"0","6","-","0","1">>, <<"C","e","c","i">>, <<>>, <<"S","e","c","o","n","d","i">>, <<"-","5">>, <<"S","I">>, <<>>, <<"C","e","c","i">>, <<>>>>,
          <<<<"4">>, <<"0","7","/","0","1","/","2","0","2","5">>, <<"M","i","n","e","s","t","r","a">>, <<>>, <<"Z","u","p","p","a">>, <<"+","5">>, <<"s","i">>, <<>>, <<"P","a","s","t","a","|","C","e","c","i">>, <<"1","0","0","g">>>>,
          <<<<"5">>, <<"0","7","/","0","1","/","2","0","2","5">>, <<"R","i","s","o">>, <<>>, <<"P","r","i","m","i">>, <<"5">>, <<"b","o","h">>, <<>>, <<"R","i","s","o">>, <<"8","0","g">>>>>>]>>,
     \* a valid row with a field beyond the header, and a row to discard
     <<[fieldnames |-> <<"id", "data", "nome", "descrizione", "categoria", "prezzo", "attivo", "ricetta", "ingredienti", "quantita">>,
        righe |-> <<<<<<"1">>, <<"0","6","/","0","1","/","2","0","2","5">>, <<"O","r","a","t","a">>, <<>>, <<"S","e","c","o","n","d","i">>, <<"5">>, <<"S","I">>, <<>>, <<"O","r","a","t","a">>, <<"1","5","0","g">>>>,
          <<<<"2">>, <<"0","6","/","0","1","/","2","0","2","5">>, <<"P","o","l","l","o">>, <<>>, <<"S","e","c","o","n","d","i">>, <<"5">>, <<"S","I">>, <<>>, <<"P","o","l","l","o">>, <<"1","5","0","g">>, <<"x">>>>,
          <<<<"3">>, <<"2","0","2","5","0","1","0","6">>, <<"C","e","c","i">>, <<>>, <<"S","e","c","o","n","d","i">>, <<"5">>, <<"S","I">>, <<>>, <<"C","e","c","i">>, <<>>>>>>]>>,
     \* a row that ends after attivo, and a row to discard
     <<[fieldnames |-> <<"id", "data", "nome", "descrizione", "categoria", "prezzo", "attivo", "ricetta", "ingredienti", "quantita">>,
        righe |-> <<<<<<"1">>, <<"0","6","/","0","1","/","2","0","2","5">>, <<"O","r","a","t","a">>, <<>>, <<"S","e","c","o","n","d","i">>, <<"5">>, <<"S","I">>>>,
          <<<<"2">>, <<"0","6","/","0","1","/","2","0","2","5">>, <<"P","o","l","l","o">>, <<>>, <<"S","e","c","o","n","d","i">>, <<"x">>, <<"S","I">>, <<>>, <<"P","o","l","l","o">>, <<>>>>>>]>>,
     \* a header without the required columns
     <<[fieldnames |-> <<"id", "data", "nome">>,
        righe |-> <<<<<<"1">>, <<"0","6","/","0","1","/","2","0","2","5">>, <<"O","r","a","t","a">>>>>>]>>,
     \* an empty file
     <<[fieldnames |-> <<>>,
        righe |-> <<>>]>>
  }

DiscoInit ==
  /\ csv \in FileNoti \cup {NoFile}
  /\ csv_mtime = 0
  /\ cartella = {}
  /\ orologio = [secondo |-> 0, scritture |-> 0]
  /\ argomenti = <<>>
  /\ reso = <<>>
  /\ Altrove({"Csv", "Fun", "Disco"})

Valida ==
  /\ \E r \in {valida_e_correggi_csv(csv, orologio.secondo)} :
       /\ argomenti' = [funzione |-> "valida_e_correggi_csv"]
       /\ reso' = <<r.risultato>>
       /\ \E con_backup \in {IF r.backup = <<>> THEN cartella
                               ELSE copy2(cartella, "backup", orologio.secondo,
                                          r.backup[1], csv_mtime)} :
            cartella' = IF r.corretto = <<>> THEN con_backup
                        ELSE copy2(con_backup, "corretto", 0, r.corretto[1],
                                   orologio.scritture)
  /\ UNCHANGED <<csv, csv_mtime, orologio>>
  /\ Fuori({"Csv", "Fun", "Disco"})

Ripristina ==
  /\ \E b \in IF backup_recenti(cartella) = {} THEN {None} ELSE backup_recenti(cartella) :
     \E r \in {ripristina_backup(csv, csv_mtime, cartella, orologio.secondo, b)} :
       /\ argomenti' = [funzione |-> "ripristina_backup"]
       /\ reso' = <<r.risultato>>
       /\ csv' = r.file
       /\ csv_mtime' = r.mtime
       /\ cartella' = r.dir
  /\ UNCHANGED orologio
  /\ Fuori({"Csv", "Fun", "Disco"})

\* the data source is written, or removed, by something else
Scrive ==
  /\ orologio.scritture < MaxScritture
  /\ \E f \in (FileNoti \cup {NoFile}) \ {csv} :
       /\ csv' = f
       /\ csv_mtime' = orologio.scritture + 1
  /\ orologio' = [orologio EXCEPT !.scritture = @ + 1]
  /\ argomenti' = <<>>
  /\ reso' = <<>>
  /\ UNCHANGED cartella
  /\ Fuori({"Csv", "Fun", "Disco"})

\* a second passes
Passa ==
  /\ orologio.secondo < MaxSecondi
  /\ orologio' = [orologio EXCEPT !.secondo = @ + 1]
  /\ UNCHANGED <<csv, csv_mtime, cartella, argomenti, reso>>
  /\ Fuori({"Csv", "Fun", "Disco"})

DiscoNext ==
  \/ Valida
  \/ Ripristina
  \/ Scrive
  \/ Passa

SpecDisco == DiscoInit /\ [][DiscoNext]_vars

\* C16: a validation of an existing data source leaves its content as it
\* was and leaves a backup, named by this second, equal to it; the file
\* .corretto is written exactly when the validation discarded a row, and then
\* holds the rows that were not discarded, in the order of the source; the
\* valid and the discarded rows are as many as the data rows.
C16_ValidationLeavesSource ==
  [][(Valida /\ csv # NoFile) =>
       LET r == reso'[1]
           righe == DictReader(csv[1])
           corretto(dir) == {e \in dir : e.tipo = "corretto"}
           scartate == {r.righe_scartate[k].riga - 1 : k \in 1..Len(r.righe_scartate)}
           valide == SelectSeq([i \in 1..Len(righe) |-> i], LAMBDA i : i \notin scartate)
       IN /\ csv' = csv
          /\ [tipo |-> "backup", secondo |-> orologio.secondo,
              contenuto |-> csv[1], mtime |-> csv_mtime] \in cartella'
          /\ corretto(cartella') # corretto(cartella) => (r.success /\ r.errori_trovati >= 1)
          /\ (r.success /\ r.errori_trovati >= 1) =>
               \E e \in corretto(cartella') :
                  DictReader(e.contenuto) = [k \in 1..Len(valide) |-> righe[valide[k]]]
          /\ (r.success /\ r.errori_trovati = 0) => corretto(cartella') = corretto(cartella)
          /\ r.success => r.righe_valide + r.errori_trovati = Len(righe)]_vars

\* C25: on a data source whose header has the required columns the
\* validation returns success and every data row is either among the valid
\* or among the discarded rows, never both, whatever the rows are.
C25_EveryRowClassified ==
  [][(/\ Valida
      /\ csv # NoFile
      /\ \A col \in {"id", "data", "nome", "descrizione", "categoria", "prezzo", "attivo"} :
           \E j \in 1..Len(csv[1].fieldnames) : csv[1].fieldnames[j] = col) =>
       LET r == reso'[1]
           righe == DictReader(csv[1])
           scartate == {r.righe_scartate[k].riga - 1 : k \in 1..Len(r.righe_scartate)}
       IN /\ r.success
          /\ scartate \subseteq 1..Len(righe)
          /\ Cardinality(scartate) = r.errori_trovati
          /\ r.righe_valide = Len(righe) - r.errori_trovati]_vars

\* C26: a row whose only defect is an attivo that is neither SI nor NO is
\* not discarded by the validation: it is among the valid rows, with attivo
\* SI.
C26_FlagCorrectedNotDiscarded ==
  [][(Valida /\ csv # NoFile) =>
       LET r == reso'[1]
           righe == DictReader(csv[1])
           solo_attivo(row) ==
             /\ {"id", "data", "nome", "descrizione", "categoria", "prezzo", "attivo"}
                  \subseteq DOMAIN row
             /\ "None" \notin DOMAIN row
             /\ \A k \in DOMAIN row : row[k] # NoneText
             /\ upper(strip(row.attivo)) \notin {<<"S","I">>, <<"N","O">>}
             /\ esamina_riga([row EXCEPT !.attivo = <<"S","I">>]).errori = <<>>
       IN \A i \in 1..Len(righe) :
            solo_attivo(righe[i]) =>
              /\ r.success
              /\ \A k \in 1..Len(r.righe_scartate) : r.righe_scartate[k].riga # i + 1
              /\ \E e \in {x \in cartella' : x.tipo = "corretto"} :
                   \E j \in 1..Len(DictReader(e.contenuto)) :
                     DictReader(e.contenuto)[j] = [righe[i] EXCEPT !.attivo = <<"S","I">>]]_vars

\* C17: with a backup in the directory, a restore leaves a pre-restore
\* snapshot of the live content, makes the live content that of a backup of
\* the greatest modification time and leaves the backups as they were; a
\* restore after a restore leaves the live content as it is; with no backup
\* the restore fails and leaves the live content and the directory alone.
C17_RestoreNewestBackup ==
  [][Ripristina =>
       LET backups(dir) == {e \in dir : e.tipo = "backup"}
           r == reso'[1]
       IN /\ backups(cartella) # {} =>
               /\ r.success
               /\ csv # NoFile =>
                    [tipo |-> "pre_ripristino", secondo |-> orologio.secondo,
                     contenuto |-> csv[1], mtime |-> csv_mtime] \in cartella'
               /\ \E b \in backups(cartella) :
                    /\ \A c \in backups(cartella) : c.mtime <= b.mtime
                    /\ csv' = <<b.contenuto>>
               /\ backups(cartella') = backups(cartella)
               /\ (argomenti # <<>> /\ argomenti.funzione = "ripristina_backup" /\ reso[1].success)
                    => csv' = csv
          /\ backups(cartella) = {} =>
               /\ ~r.success
               /\ csv' = csv
               /\ cartella' = cartella]_vars

\* a restore among two backups of different modification times, that changed
\* the live content and kept the content it replaced
C17_Witness ==
  /\ argomenti # <<>> /\ argomenti.funzione = "ripristina_backup"
  /\ reso[1].success
  /\ \E b, c \in cartella :
       /\ b.tipo = "backup" /\ c.tipo = "backup" /\ c.mtime < b.mtime
       /\ b.contenuto # c.contenuto
       /\ csv = <<b.contenuto>>
  /\ \E e \in cartella : e.tipo = "pre_ripristino" /\ <<e.contenuto>> # csv

(***************************************************************************)
(* SpecVoti: votes sent to /api/vota one after the other                   *)
(***************************************************************************)
MaxVoti == 3

VotiInit ==
  /\ voti_file \in {NoFile, <<EmptyMap>>}
  /\ richieste = <<>>
  /\ risposta_http = <<>>
  /\ Altrove({"Voti", "Http"})

Vota(session, data) ==
  /\ Len(richieste) < MaxVoti
  /\ \E r \in {vota(voti_file, session, data, <<"2","0","2","5","-","0","1","-","0","6">>, orologio.secondo)} :
       /\ voti_file' = r.file
       /\ risposta_http' = <<[status |-> r.status]>>
       /\ richieste' = Append(richieste, [session |-> session, data |-> data,
                                           status |-> r.status])
  /\ Fuori({"Voti", "Http"})

\* the requests of a user: the dish as a number, as a string or missing; the
\* date given, possibly not a date, or missing.  Nobody, the admin and another
\* user vote dish 7 of one date.
VotiNext ==
  \/ \E piatto_id \in {[tipo |-> "int", valore |-> <<"7">>],
                         [tipo |-> "str", valore |-> <<"7","_","2","0","2","5","-","0","1","-","0","6">>],
                         [tipo |-> "None", valore |-> NoneText]},
        data_menu \in {Assente, [tipo |-> "str", valore |-> <<"2","0","2","5","-","0","1","-","0","7">>],
                       [tipo |-> "str", valore |-> <<"2","0","2","5","-","0","1","-","0","6","_","2","0","2","5","-","0","1","-","0","7">>]},
        voto \in {1, 5} :
       Vota(<<<<"c","a","r","l","a">>>>,
            [piatto_id |-> piatto_id, data_menu |-> data_menu, voto |-> voto,
             commento |-> IF voto = 1 THEN Assente
                          ELSE [tipo |-> "str", valore |-> <<"b","u","o","n","o">>]])
  \/ \E session \in {<<>>, <<<<"a","d","m","i","n">>>>, <<<<"u","m","b","e","r","t","o">>>>}, voto \in {1, 5} :
       Vota(session,
            [piatto_id |-> [tipo |-> "int", valore |-> <<"7">>],
             data_menu |-> [tipo |-> "str", valore |-> <<"2","0","2","5","-","0","1","-","0","7">>],
             voto |-> voto, commento |-> Assente])
  \/ Passa

SpecVoti == VotiInit /\ [][VotiNext]_vars

\* C18: for every (user, dish, date) of a vote that was taken, the store has
\* an entry under the key user_dish_date with the rating and the comment of
\* the latest vote of that user for that dish and date; no entry has the
\* admin as user.
C18_OneEntryPerVote ==
  LET votes == IF voti_file = NoFile THEN EmptyMap ELSE voti_file[1]
      accolte == SelectSeq(richieste, LAMBDA q : q.status = 200)
      data_di(q) == IF q.data.data_menu = Assente THEN <<"2","0","2","5","-","0","1","-","0","6">>
                    ELSE q.data.data_menu.valore
      stessa(q, z) == /\ q.session = z.session /\ q.data.piatto_id = z.data.piatto_id
                      /\ data_di(q) = data_di(z)
      chiave(q) == q.session[1] \o <<"_">> \o q.data.piatto_id.valore \o <<"_">> \o data_di(q)
  IN /\ \A i \in 1..Len(accolte) :
          LET ultimo == accolte[CHOOSE j \in i..Len(accolte) :
                                  /\ stessa(accolte[i], accolte[j])
                                  /\ \A h \in (j + 1)..Len(accolte) :
                                       ~stessa(accolte[i], accolte[h])]
          IN /\ chiave(accolte[i]) \in DOMAIN votes
             /\ votes[chiave(accolte[i])].voto = ultimo.data.voto
             /\ votes[chiave(accolte[i])].commento =
                  (IF ultimo.data.commento = Assente THEN <<>> ELSE ultimo.data.commento.valore)
     /\ \A k \in DOMAIN votes : votes[k].username # <<"a","d","m","i","n">>

\* C18, by key: after every request the store has, for every key of a vote
\* that was taken, one entry with the rating and the comment of the latest
\* vote that gives that key; a vote adds no key but its own and leaves the
\* entries of the other keys as they were; no entry has the admin as user.
C18_OneEntryPerKey ==
  [][richieste' # richieste =>
       LET contenuto(f) == IF f = NoFile THEN EmptyMap ELSE f[1]
           votes == contenuto(voti_file')
           prima == contenuto(voti_file)
           accolte == SelectSeq(richieste', LAMBDA q : q.status = 200)
           data_di(q) == IF q.data.data_menu = Assente THEN <<"2","0","2","5","-","0","1","-","0","6">>
                         ELSE q.data.data_menu.valore
           chiave(q) == q.session[1] \o <<"_">> \o q.data.piatto_id.valore \o <<"_">> \o data_di(q)
           questa == richieste'[Len(richieste')]
       IN /\ DOMAIN votes = {chiave(accolte[i]) : i \in 1..Len(accolte)}
          /\ \A i \in 1..Len(accolte) :
               LET ultimo == accolte[CHOOSE j \in i..Len(accolte) :
                                       /\ chiave(accolte[j]) = chiave(accolte[i])
                                       /\ \A h \in (j + 1)..Len(accolte) :
                                            chiave(accolte[h]) # chiave(accolte[i])]
               IN /\ votes[chiave(accolte[i])].voto = ultimo.data.voto
                  /\ votes[chiave(accolte[i])].commento =
                       (IF ultimo.data.commento = Assente THEN <<>>
                        ELSE ultimo.data.commento.valore)
                  /\ votes[chiave(accolte[i])].username = ultimo.session[1]
          /\ \A k \in DOMAIN prima :
               /\ k \in DOMAIN votes
               /\ (questa.status # 200 \/ k # chiave(questa)) => votes[k] = prima[k]
          /\ questa.status # 200 => voti_file' = voti_file
          /\ \A k \in DOMAIN votes : votes[k].username # <<"a","d","m","i","n">>]_vars

\* a user voted a dish of a date twice, with two ratings, beside the vote of
\* another user, and the admin was turned away
C18_Witness ==
  /\ Len(richieste) = 3
  /\ voti_file # NoFile
  /\ \E k, h \in DOMAIN voti_file[1] :
       /\ k # h
       /\ voti_file[1][k].username # voti_file[1][h].username
  /\ \E i, j \in 1..Len(richieste) :
       /\ i < j
       /\ richieste[i].status = 200 /\ richieste[j].status = 200
       /\ richieste[i].session = richieste[j].session
       /\ richieste[i].data.piatto_id = richieste[j].data.piatto_id
       /\ richieste[i].data.data_menu = richieste[j].data.data_menu
       /\ richieste[i].data.voto # richieste[j].data.voto

====
